---- MODULE Spec2Model ----
(***************************************************************************)
(* Verification model of the leftover-label-printer job pipeline:          *)
(*   - the print-job transition engine (applyPrintJobTransition),          *)
(*   - the idempotent submission path (submitPrintJobIdempotently and      *)
(*     handleCreatePrintJob with its dispatch steps),                      *)
(*   - the agent's MQTT consume loop (ConsumeLoop, messageDeduper,         *)
(*     recentEventIDCache) together with the broker session it opens.      *)
(* Each part has its own specification; the variables of the other parts   *)
(* stay at their initial values.                                           *)
(***************************************************************************)
EXTENDS Integers, Sequences, FiniteSets, TLC

VARIABLES
    \* ---- transition engine ----
    currentState,        \* persisted state of the job under decision
    processedEventIds,   \* persisted set of eventIds already accepted
    lastDecision,        \* input and output of the latest applyPrintJobTransition call
    rejectedEventIds,    \* history: eventIds of the decisions rejected so far
    machineDecision,     \* what the xstate-based engine and the helper predicates of both
                         \* engines return on the input of the latest call
    racingDecision,      \* input and output of a second call made on the same stored
                         \* state as the latest call, before either result was stored
    \* ---- submission ----
    jobs,                \* print_jobs collection: set of persisted job records
    jobEvents,           \* job_events collection: set of persisted JobEvent records
    calls,               \* per caller: the invocation in progress
    published,           \* commands handed to commandPublisher.publish
    entryPoint,          \* which entry point the callers invoke
    failuresLeft,        \* dispatch-step failures the environment may still inject
    \* ---- consume loop ----
    loopPc,              \* position of ConsumeLoop
    ctxCancelled,        \* ctx.Err() != nil
    cacheCapacity,       \* recentEventIDCache.capacity
    backoff,             \* backoffState: the policy and the next delay
    inFlight,            \* messageDeduper.inFlight
    processedQueue,      \* recentEventIDCache.queue
    processedSet,        \* recentEventIDCache.set
    brokerSubscribed,    \* the broker holds a subscription for the agent's session
    everSubscribed,      \* a subscribe has succeeded at least once
    brokerQueue,         \* commands the broker holds for delivery to the agent
    publishedOffline,    \* commands published between a session loss and the next subscribe
    handlerCalls,        \* OnCommand invocations per eventId: 0, 1, or 2 for more than once
    running,             \* OnCommand invocations per eventId that have started and not returned
    execOutcomes,        \* per eventId: Outcome of the latest Executor.Execute the production
                         \* handler ran for it
    cacheAdds,           \* eventIds passed to the cache's Add / add called on its own, in order
    deduperMu,           \* messageDeduper.mu: the message callback holding it, or NoHolder
    callbacks,           \* per message callback (goroutine): its position and its message
    harness,             \* Options.Sleep in use and, for the recording sleep of the tests,
                         \* the delays it was called with; the kind of session the client
                         \* returns
    openSessions,        \* sessions returned by Connect and not yet closed
    sessionLog,          \* history kept while tracking: eventIds whose handler succeeded since
                         \* the latest subscribe (now) and before it (earlier), and those of
                         \* earlier whose delivery was dropped since (dropped)
    recent,              \* history: lastSucceeded (the eventId whose successful handler return
                         \* was the latest callback event) and reopened (eventIds whose handler
                         \* returned an error or that were evicted from the processed cache)
    \* ---- job executor ----
    execCommand,         \* the Command passed to Executor.Execute
    execPc,              \* position inside Execute / downloadPDF
    execSeen,            \* what the HTTP client, the filesystem and lp answered so far
    spoolFiles,          \* spool files created by the call and still present
    execResult,          \* the Result returned by Execute
    \* ---- command wire format ----
    msgPayload,          \* the MQTT payload handed to the subscribe handler
    msgResult,           \* what the subscribe handler did with it
    pubInput,            \* input and deps of the publishPrintJobCommand call
    pubLog,              \* calls of deps.publisher.publish, in order
    pubResult            \* how publishPrintJobCommand ended

engineVars == <<currentState, processedEventIds, lastDecision, rejectedEventIds,
                machineDecision, racingDecision>>
submitVars == <<jobs, jobEvents, calls, published, entryPoint, failuresLeft>>
consumeVars == <<loopPc, ctxCancelled, cacheCapacity, backoff, inFlight,
                 processedQueue, processedSet, brokerSubscribed, everSubscribed,
                 brokerQueue, publishedOffline, handlerCalls, running, execOutcomes,
                 cacheAdds, deduperMu, callbacks, harness,
                 openSessions, sessionLog, recent>>
execVars == <<execCommand, execPc, execSeen, spoolFiles, execResult>>
wireVars == <<msgPayload, msgResult, pubInput, pubLog, pubResult>>
vars == <<engineVars, submitVars, consumeVars, execVars, wireVars>>

(***************************************************************************)
(* Transition engine                                                       *)
(***************************************************************************)

PRINT_JOB_STATES == {"pending", "processing", "dispatched", "printed", "failed"}

TransitionSources == {"backend", "agent"}

\* Bound: number of distinct eventIds offered to the engine.
MaxEventIds == 4

EventIds == 1..MaxEventIds

TransitionEvents == [eventId : EventIds, source : TransitionSources, targetState : PRINT_JOB_STATES]

TERMINAL_STATES_OnlyPrinted == {"printed"}

TERMINAL_STATES == {"printed", "failed"}

MATRIX ==
    { <<"pending", "processing">>,
      <<"processing", "dispatched">>,
      <<"processing", "failed">>,
      <<"dispatched", "printed">>,
      <<"dispatched", "failed">> }

isTransitionAllowed_ExtraEdge(from, to) ==
    <<from, to>> \in MATRIX \cup {<<"pending", "dispatched">>}

isTransitionAllowed(from, to) == <<from, to>> \in MATRIX

sourceCanApplyTransition_AgentFailsProcessing(from, to, source) ==
    CASE <<from, to>> \in { <<"pending", "processing">>, <<"processing", "dispatched">> }
            -> source = "backend"
      [] <<from, to>> \in { <<"processing", "failed">>, <<"dispatched", "printed">>,
                            <<"dispatched", "failed">> }
            -> source = "agent"
      [] OTHER -> FALSE

sourceCanApplyTransition(from, to, source) ==
    CASE <<from, to>> \in { <<"pending", "processing">>, <<"processing", "dispatched">>,
                            <<"processing", "failed">> }
            -> source = "backend"
      [] <<from, to>> \in { <<"dispatched", "printed">>, <<"dispatched", "failed">> }
            -> source = "agent"
      [] OTHER -> FALSE

Rejected(state, processed, reason) ==
    [accepted |-> FALSE, reason |-> reason, nextState |-> state, processedEventIds |-> processed]

applyPrintJobTransition_NoDuplicateCheck(state, event, processed) ==
    IF state \in TERMINAL_STATES
      THEN Rejected(state, processed, "terminal_state_locked")
    ELSE IF ~isTransitionAllowed(state, event.targetState)
      THEN Rejected(state, processed, "invalid_transition")
    ELSE IF ~sourceCanApplyTransition(state, event.targetState, event.source)
      THEN Rejected(state, processed, "authority_violation")
    ELSE [accepted |-> TRUE, reason |-> "none", nextState |-> event.targetState,
          processedEventIds |-> processed \cup {event.eventId}]

applyPrintJobTransition_NoEdgeChecks(state, event, processed) ==
    IF event.eventId \in processed
      THEN Rejected(state, processed, "duplicate_event")
    ELSE IF state \in TERMINAL_STATES
      THEN Rejected(state, processed, "terminal_state_locked")
    ELSE [accepted |-> TRUE, reason |-> "none", nextState |-> event.targetState,
          processedEventIds |-> processed \cup {event.eventId}]

applyPrintJobTransition_AuthorityFirst(state, event, processed) ==
    IF event.eventId \in processed
      THEN Rejected(state, processed, "duplicate_event")
    ELSE IF state \in TERMINAL_STATES
      THEN Rejected(state, processed, "terminal_state_locked")
    ELSE IF ~sourceCanApplyTransition(state, event.targetState, event.source)
      THEN Rejected(state, processed, "authority_violation")
    ELSE IF ~isTransitionAllowed(state, event.targetState)
      THEN Rejected(state, processed, "invalid_transition")
    ELSE [accepted |-> TRUE, reason |-> "none", nextState |-> event.targetState,
          processedEventIds |-> processed \cup {event.eventId}]

applyPrintJobTransition(state, event, processed) ==
    IF event.eventId \in processed
      THEN Rejected(state, processed, "duplicate_event")
    ELSE IF state \in TERMINAL_STATES
      THEN Rejected(state, processed, "terminal_state_locked")
    ELSE IF ~isTransitionAllowed(state, event.targetState)
      THEN Rejected(state, processed, "invalid_transition")
    ELSE IF ~sourceCanApplyTransition(state, event.targetState, event.source)
      THEN Rejected(state, processed, "authority_violation")
    ELSE [accepted |-> TRUE, reason |-> "none", nextState |-> event.targetState,
          processedEventIds |-> processed \cup {event.eventId}]

\* The xstate-based engine: printJobStateMachine lists, per state, the event
\* types it reacts to with their target and guard.
printJobStateMachine_AgentFailsProcessing ==
    [state \in PRINT_JOB_STATES |->
        CASE state = "pending" ->
                { [type |-> "TO_PROCESSING", target |-> "processing", cond |-> "isBackendSource"] }
          [] state = "processing" ->
                { [type |-> "TO_DISPATCHED", target |-> "dispatched", cond |-> "isBackendSource"],
                  [type |-> "TO_FAILED", target |-> "failed", cond |-> "isAgentSource"] }
          [] state = "dispatched" ->
                { [type |-> "TO_PRINTED", target |-> "printed", cond |-> "isAgentSource"],
                  [type |-> "TO_FAILED", target |-> "failed", cond |-> "isAgentSource"] }
          [] OTHER -> {}]

printJobStateMachine ==
    [state \in PRINT_JOB_STATES |->
        CASE state = "pending" ->
                { [type |-> "TO_PROCESSING", target |-> "processing", cond |-> "isBackendSource"] }
          [] state = "processing" ->
                { [type |-> "TO_DISPATCHED", target |-> "dispatched", cond |-> "isBackendSource"],
                  [type |-> "TO_FAILED", target |-> "failed", cond |-> "isBackendSource"] }
          [] state = "dispatched" ->
                { [type |-> "TO_PRINTED", target |-> "printed", cond |-> "isAgentSource"],
                  [type |-> "TO_FAILED", target |-> "failed", cond |-> "isAgentSource"] }
          [] OTHER -> {}]

machineGuard(cond, event) ==
    CASE cond = "isBackendSource" -> event.source = "backend"
      [] cond = "isAgentSource" -> event.source = "agent"

toMachineEventType(to) ==
    CASE to = "pending" -> "TO_PENDING"
      [] to = "processing" -> "TO_PROCESSING"
      [] to = "dispatched" -> "TO_DISPATCHED"
      [] to = "printed" -> "TO_PRINTED"
      [] to = "failed" -> "TO_FAILED"

\* printJobStateMachine.transition(from, event).value: the target of the
\* enabled transition for the event type, or the state itself when the state
\* has none or its guard fails.
transitionState(from, event) ==
    LET enabled == { t \in printJobStateMachine[from] :
                        t.type = event.type /\ machineGuard(t.cond, event) }
    IN IF enabled = {} THEN from ELSE (CHOOSE t \in enabled : TRUE).target

machineIsTransitionAllowed(from, to) ==
    \/ transitionState(from, [type |-> toMachineEventType(to), source |-> "backend"]) # from
    \/ transitionState(from, [type |-> toMachineEventType(to), source |-> "agent"]) # from

machineSourceCanApplyTransition(from, to, source) ==
    transitionState(from, [type |-> toMachineEventType(to), source |-> source]) # from

machineApplyPrintJobTransition(state, event, processed) ==
    IF event.eventId \in processed
      THEN Rejected(state, processed, "duplicate_event")
    ELSE IF state \in TERMINAL_STATES
      THEN Rejected(state, processed, "terminal_state_locked")
    ELSE IF ~machineIsTransitionAllowed(state, event.targetState)
      THEN Rejected(state, processed, "invalid_transition")
    ELSE IF ~machineSourceCanApplyTransition(state, event.targetState, event.source)
      THEN Rejected(state, processed, "authority_violation")
    ELSE [accepted |-> TRUE, reason |-> "none", nextState |-> event.targetState,
          processedEventIds |-> processed \cup {event.eventId}]

NoMachineDecision ==
    [decision |-> Rejected("pending", {}, "none"),
     machineAllowed |-> FALSE, machineSourceCan |-> FALSE,
     matrixAllowed |-> FALSE, matrixSourceCan |-> FALSE]

\* The caller's set object after the call: the engine copies it on entry
\* (new Set(input.processedEventIds ?? [])) and adds the eventId to the copy.
inputSetAfterCall_Aliased(processed, event, accepted) ==
    IF accepted THEN processed \cup {event.eventId} ELSE processed

inputSetAfterCall(processed, event, accepted) == processed

NoDecision ==
    [called |-> FALSE, currentState |-> "pending", processedIn |-> {}, inputAfter |-> {},
     event |-> [eventId |-> 1, source |-> "backend", targetState |-> "pending"],
     accepted |-> FALSE, reason |-> "none", nextState |-> "pending", processedEventIds |-> {}]

EngineInit ==
    /\ currentState \in PRINT_JOB_STATES
    /\ processedEventIds = {}
    /\ lastDecision = NoDecision
    /\ rejectedEventIds = {}
    /\ machineDecision = NoMachineDecision
    /\ racingDecision = NoDecision

\* The record of one call: its input and the decision returned.
DecisionRecord(state, event, processed) ==
    LET d == applyPrintJobTransition(state, event, processed)
    IN [called |-> TRUE, currentState |-> state, processedIn |-> processed,
        inputAfter |-> inputSetAfterCall(processed, event, d.accepted),
        event |-> event, accepted |-> d.accepted, reason |-> d.reason,
        nextState |-> d.nextState, processedEventIds |-> d.processedEventIds]

MachineResults(state, event, processed) ==
    [decision |-> machineApplyPrintJobTransition(state, event, processed),
     machineAllowed |-> machineIsTransitionAllowed(state, event.targetState),
     machineSourceCan |-> machineSourceCanApplyTransition(state, event.targetState, event.source),
     matrixAllowed |-> isTransitionAllowed(state, event.targetState),
     matrixSourceCan |-> sourceCanApplyTransition(state, event.targetState, event.source)]

\* One decision on the job: the caller evaluates the event on the persisted
\* state and processed set and persists the decision's nextState and set.
Decide(event) ==
    LET d == DecisionRecord(currentState, event, processedEventIds)
    IN /\ lastDecision' = d
       /\ racingDecision' = NoDecision
       /\ currentState' = d.nextState
       /\ processedEventIds' = d.processedEventIds
       /\ rejectedEventIds' = IF d.accepted THEN rejectedEventIds
                               ELSE rejectedEventIds \cup {event.eventId}
       /\ machineDecision' = MachineResults(currentState, event, processedEventIds)
       /\ UNCHANGED <<submitVars, consumeVars, execVars, wireVars>>

\* Two events for the job, with distinct eventIds, arrive together. applyPrintJobTransition takes the
\* state and the processed set as arguments and holds no lock or version, and
\* no caller in the repository stores a decision, so both calls are made on
\* the same stored state; what is stored afterwards is the result of the call
\* that writes last.
DecideConcurrently(event, other) ==
    LET d1 == DecisionRecord(currentState, event, processedEventIds)
        d2 == DecisionRecord(currentState, other, processedEventIds)
    IN /\ event.eventId < other.eventId
       /\ lastDecision' = d1
       /\ racingDecision' = d2
       /\ \E last \in {d1, d2} :
             /\ currentState' = last.nextState
             /\ processedEventIds' = last.processedEventIds
       /\ rejectedEventIds' = rejectedEventIds
                                \cup (IF d1.accepted THEN {} ELSE {event.eventId})
                                \cup (IF d2.accepted THEN {} ELSE {other.eventId})
       /\ machineDecision' = MachineResults(currentState, event, processedEventIds)
       /\ UNCHANGED <<submitVars, consumeVars, execVars, wireVars>>

EngineNext == \E event \in TransitionEvents : Decide(event)

\* Bound: number of distinct eventIds among the events that may arrive together.
MaxRacingEventIds == 2

RacingEvents == {event \in TransitionEvents : event.eventId <= MaxRacingEventIds}

\* Decisions whose events may arrive together.
ConcurrentNext ==
    \/ \E event \in RacingEvents : Decide(event)
    \/ \E event, other \in RacingEvents : DecideConcurrently(event, other)

(***************************************************************************)
(* Idempotent submission and dispatch                                      *)
(***************************************************************************)

\* Bound: concurrent callers of the submission entry point.
MaxCallers == 3

\* Bound: distinct idempotency keys offered by the callers.
MaxKeys == 2

\* Bound: failures the environment injects into render, upload, signing or publish.
MaxFailures == 1

Callers == 1..MaxCallers

IdempotencyKeys == 1..MaxKeys

\* Keys are interchangeable and a caller keeps its key across resends, so
\* caller c draws its key from the first c keys.
KeysOfferedBy(c) == {key \in IdempotencyKeys : key <= c}

\* The two entry points over the store: submitPrintJobIdempotently ("guard")
\* and handleCreatePrintJob ("handler").
EntryPoints == {"guard", "handler"}

PreflightOutcomes == {"ok", "unauthorized", "forbidden", "validation_failed"}

NoJobId == 0

\* No response body yet.
NoResponse == [jobId |-> NoJobId, state |-> "", acceptedAt |-> 0, traceId |-> 0]

IdleCall ==
    [pc |-> "idle", key |-> 0, jobId |-> NoJobId, result |-> NoJobId,
     status |-> 0, generated |-> 0, body |-> NoResponse, duplicate |-> FALSE]

\* The traceId and the acceptedAt instant of the request of caller c.
RequestTraceId(c) == c

RequestAcceptedAt(c) == c

\* createPrintJob / the PrintJobRecord built by submitPrintJobIdempotently.
createPrintJob(c, call) ==
    [jobId |-> call.jobId, idempotencyKey |-> call.key, state |-> "pending",
     acceptedAt |-> RequestAcceptedAt(c), traceId |-> RequestTraceId(c)]

createInitialEvent(job) ==
    [jobId |-> job.jobId, type |-> "pending", source |-> "backend", traceId |-> job.traceId]

toAcceptedResponse(job) ==
    [jobId |-> job.jobId, state |-> job.state, acceptedAt |-> job.acceptedAt,
     traceId |-> job.traceId]

\* The body answered when the first lookup finds a job: the stored job's
\* fields, none taken from the replaying request.
ReplayResponse_RequestTrace(existing, requestTraceId) ==
    [toAcceptedResponse(existing) EXCEPT !.traceId = requestTraceId]

ReplayResponse(existing, requestTraceId) == toAcceptedResponse(existing)

\* The job_events collection after insert / insertAccepted: the guard stores
\* no event, the handler stores the initial event together with the job and
\* only when the unique index accepted the job.
EventsAfterInsert_BeforeIndexCheck(events, entry, job, rejected) ==
    IF entry = "handler" THEN events \cup {createInitialEvent(job)} ELSE events

EventsAfterInsert(events, entry, job, rejected) ==
    IF entry = "handler" /\ ~rejected THEN events \cup {createInitialEvent(job)} ELSE events

\* createJobId: an id no other call and no earlier attempt has produced.
createJobId(c, generated) == generated * MaxCallers + c

\* store.findByIdempotencyKey: the persisted jobs carrying the key.
findByIdempotencyKey(store, key) == {j \in store : j.idempotencyKey = key}

\* The unique index on idempotencyKey rejects an insert whose key is present.
InsertRejected(store, key) == findByIdempotencyKey(store, key) # {}

\* The response of a caller that lost the insert race.
RaceLoserResponseJobId_OwnJob(ownJobId, duplicated) == ownJobId

RaceLoserResponseJobId(ownJobId, duplicated) == duplicated.jobId

\* Where the call continues after the first lookup by idempotencyKey.
PcAfterLookup_DispatchReplay(entry, found) ==
    IF found THEN (IF entry = "handler" THEN "render" ELSE "done") ELSE "insert"

PcAfterLookup(entry, found) == IF found THEN "done" ELSE "insert"

StatusFor(outcome) ==
    CASE outcome = "unauthorized" -> 401
      [] outcome = "forbidden" -> 403
      [] outcome = "validation_failed" -> 400
      [] OTHER -> 0

SubmitInit ==
    /\ jobs = {}
    /\ jobEvents = {}
    /\ calls = [c \in Callers |-> IdleCall]
    /\ published = {}
    /\ entryPoint \in EntryPoints
    /\ failuresLeft = MaxFailures

\* A caller invokes the entry point; handleCreatePrintJob first authenticates,
\* authorizes and validates the request and answers 401, 403 or 400 on failure.
Begin(c, key, outcome) ==
    /\ calls[c].pc = "idle"
    /\ entryPoint = "guard" => outcome = "ok"
    /\ calls' = [calls EXCEPT ![c] =
          IF outcome = "ok"
            THEN [IdleCall EXCEPT !.pc = "find", !.key = key]
            ELSE [IdleCall EXCEPT !.pc = "done", !.status = StatusFor(outcome)]]
    /\ UNCHANGED <<jobs, jobEvents, published, entryPoint, failuresLeft>>
    /\ UNCHANGED <<engineVars, consumeVars, execVars, wireVars>>

\* First lookup; when nothing is found the job record is constructed.
FindExisting(c) ==
    /\ calls[c].pc = "find"
    /\ LET existing == findByIdempotencyKey(jobs, calls[c].key)
       IN IF existing # {}
            THEN \E j \in existing :
                   calls' = [calls EXCEPT ![c].pc = PcAfterLookup(entryPoint, TRUE),
                                          ![c].jobId = j.jobId,
                                          ![c].result = j.jobId,
                                          ![c].status = 202,
                                          ![c].body = ReplayResponse(j, RequestTraceId(c)),
                                          ![c].duplicate = TRUE]
            ELSE calls' = [calls EXCEPT ![c].pc = PcAfterLookup(entryPoint, FALSE),
                                        ![c].jobId = createJobId(c, calls[c].generated),
                                        ![c].generated = calls[c].generated + 1]
    /\ UNCHANGED <<jobs, jobEvents, published, entryPoint, failuresLeft>>
    /\ UNCHANGED <<engineVars, consumeVars, execVars, wireVars>>

\* store.insert / store.insertAccepted under the unique index.
Insert(c) ==
    /\ calls[c].pc = "insert"
    /\ jobEvents' = EventsAfterInsert(jobEvents, entryPoint, createPrintJob(c, calls[c]),
                                      InsertRejected(jobs, calls[c].key))
    /\ IF InsertRejected(jobs, calls[c].key)
         THEN /\ calls' = [calls EXCEPT ![c].pc = "reread"]
              /\ UNCHANGED jobs
         ELSE /\ jobs' = jobs \cup {createPrintJob(c, calls[c])}
              /\ calls' = [calls EXCEPT
                    ![c].pc = IF entryPoint = "guard" THEN "done" ELSE "render",
                    ![c].result = IF entryPoint = "guard" THEN calls[c].jobId ELSE NoJobId,
                    ![c].status = IF entryPoint = "guard" THEN 202 ELSE 0,
                    ![c].body = IF entryPoint = "guard"
                                  THEN toAcceptedResponse(createPrintJob(c, calls[c]))
                                  ELSE NoResponse]
    /\ UNCHANGED <<published, entryPoint, failuresLeft>>
    /\ UNCHANGED <<engineVars, consumeVars, execVars, wireVars>>

\* The catch branch for DuplicateIdempotencyKeyError: read the winner's job.
Reread(c) ==
    /\ calls[c].pc = "reread"
    /\ LET duplicated == findByIdempotencyKey(jobs, calls[c].key)
       IN IF duplicated # {}
            THEN \E j \in duplicated :
                   calls' = [calls EXCEPT ![c].pc = "done",
                                          ![c].result = RaceLoserResponseJobId(calls[c].jobId, j),
                                          ![c].status = 202,
                                          ![c].body = toAcceptedResponse(j),
                                          ![c].duplicate = TRUE]
            ELSE calls' = [calls EXCEPT ![c].pc = "threw"]
    /\ UNCHANGED <<jobs, jobEvents, published, entryPoint, failuresLeft>>
    /\ UNCHANGED <<engineVars, consumeVars, execVars, wireVars>>

DispatchStepAfter_PublishUnsigned(pc) ==
    CASE pc = "render" -> "upload"
      [] pc = "upload" -> "publish"
      [] pc = "sign" -> "publish"

DispatchStepAfter(pc) ==
    CASE pc = "render" -> "upload"
      [] pc = "upload" -> "sign"
      [] pc = "sign" -> "publish"

\* renderPdf, uploadRenderedPdf, createRenderedPdfDownloadUrl: each succeeds or throws.
DispatchStep(c, ok) ==
    /\ calls[c].pc \in {"render", "upload", "sign"}
    /\ IF ok
         THEN /\ calls' = [calls EXCEPT ![c].pc = DispatchStepAfter(calls[c].pc)]
              /\ UNCHANGED failuresLeft
         ELSE /\ failuresLeft > 0
              /\ failuresLeft' = failuresLeft - 1
              /\ calls' = [calls EXCEPT ![c].pc = "threw", ![c].result = NoJobId,
                                        ![c].status = 0]
    /\ UNCHANGED <<jobs, jobEvents, published, entryPoint>>
    /\ UNCHANGED <<engineVars, consumeVars, execVars, wireVars>>

\* publishPrintJobCommand, then the 202 response of handleCreatePrintJob.
PublishCommand(c, ok) ==
    /\ calls[c].pc = "publish"
    /\ IF ok
         THEN /\ published' = published \cup
                    {[eventId |-> Cardinality(published) + 1,
                      jobId |-> calls[c].jobId,
                      idempotencyKey |-> calls[c].key]}
              /\ calls' = [calls EXCEPT ![c].pc = "done",
                                        ![c].result = calls[c].jobId,
                                        ![c].status = 202,
                                        ![c].body = toAcceptedResponse(createPrintJob(c, calls[c]))]
              /\ UNCHANGED failuresLeft
         ELSE /\ failuresLeft > 0
              /\ failuresLeft' = failuresLeft - 1
              /\ calls' = [calls EXCEPT ![c].pc = "threw", ![c].result = NoJobId,
                                        ![c].status = 0]
              /\ UNCHANGED published
    /\ UNCHANGED <<jobs, jobEvents, entryPoint>>
    /\ UNCHANGED <<engineVars, consumeVars, execVars, wireVars>>

\* The call returned the 202 response.
Answered(c) == calls[c].pc = "done" /\ calls[c].status = 202

\* The client resends a submission whose call threw, with the same idempotencyKey.
Retry(c) ==
    /\ calls[c].pc = "threw"
    /\ calls' = [calls EXCEPT ![c].pc = "find", ![c].jobId = NoJobId]
    /\ UNCHANGED <<jobs, jobEvents, published, entryPoint, failuresLeft>>
    /\ UNCHANGED <<engineVars, consumeVars, execVars, wireVars>>

\* The client resends a submission that was already answered 202.
Resubmit(c) ==
    /\ Answered(c)
    /\ calls' = [calls EXCEPT ![c].pc = "find", ![c].jobId = NoJobId,
                              ![c].result = NoJobId, ![c].status = 0,
                              ![c].body = NoResponse, ![c].duplicate = FALSE]
    /\ UNCHANGED <<jobs, jobEvents, published, entryPoint, failuresLeft>>
    /\ UNCHANGED <<engineVars, consumeVars, execVars, wireVars>>

SubmitStep(c) ==
    \/ FindExisting(c)
    \/ Insert(c)
    \/ Reread(c)
    \/ \E ok \in BOOLEAN : DispatchStep(c, ok)
    \/ \E ok \in BOOLEAN : PublishCommand(c, ok)

SubmitNext ==
    \E c \in Callers :
        \/ \E key \in KeysOfferedBy(c), outcome \in PreflightOutcomes : Begin(c, key, outcome)
        \/ SubmitStep(c)
        \/ Retry(c)
        \/ Resubmit(c)

\* Submissions that pass authentication, authorization and validation, and
\* the resends of the calls that threw.
DispatchNext ==
    \E c \in Callers :
        \/ \E key \in KeysOfferedBy(c) : Begin(c, key, "ok")
        \/ SubmitStep(c)
        \/ Retry(c)

(***************************************************************************)
(* Agent consume loop, deduplication and the broker session                *)
(***************************************************************************)

\* Bound: distinct command eventIds published to the printer topic.
MaxCommands == 2

CommandIds == 1..MaxCommands

\* The two consume loops of the repository: ConsumeLoop (Go agent) and
\* consumePrinterJobCommands (TypeScript).
LoopImpls == {"go", "ts"}

\* Option value standing for "MaxProcessedEventIDs / maxProcessedEventIds not set".
UnsetOption == -1

\* Bound: largest explicit dedupe cache size offered as an option.
MaxCacheOption == 1

CacheOptions == {UnsetOption} \cup 0..MaxCacheOption

defaultDedupeCacheSize == 2048

\* Options.Backoff (milliseconds) of the loops whose message handling is
\* checked: the delay stays at its initial value.
ConsumePolicy == [InitialDelay |-> 100, MaxDelay |-> 100, Multiplier |-> 2]

\* Bound: backoff sleeps recorded by the recording Options.Sleep of the tests.
MaxSleeps == 5

defaultInitialBackoffDelay == 500

defaultMaxBackoffDelay == 10000

defaultBackoffMultiplier == 2

\* Options.Backoff values offered to the loop (milliseconds; UnsetOption for a
\* field left out): the two policies of the reconnect tests, no policy, and
\* zero delays.
BackoffOptions ==
    { [InitialDelay |-> 100, MaxDelay |-> 1000, Multiplier |-> 2],
      [InitialDelay |-> 50, MaxDelay |-> 500, Multiplier |-> 2],
      [InitialDelay |-> UnsetOption, MaxDelay |-> UnsetOption, Multiplier |-> UnsetOption],
      [InitialDelay |-> 0, MaxDelay |-> 0, Multiplier |-> UnsetOption] }

\* Options.Sleep: the default (sleepWithContext / defaultSleep) or the
\* recording sleep of the tests, which notes the delay and returns at once.
SleepOptions == {"default", "recording"}

\* How a Client or Session call ends: without error, with an error, or with
\* an error that is context.Canceled / context.DeadlineExceeded (Go) or is
\* named AbortError (TypeScript).
CallOutcomes == {"ok", "error", "context_error"}

InvalidMessageKinds == {"malformed", "schema_invalid", "printer_mismatch"}

\* SetCleanSession(true): the broker keeps no subscription and no queued
\* messages for the client once its session ends.
CleanSession == TRUE

\* resolveCacheSize (Go) and `options.maxProcessedEventIds ?? 2048` (TypeScript).
resolveCacheSize(impl, value) ==
    IF impl = "go"
      THEN (IF value <= 0 THEN defaultDedupeCacheSize ELSE value)
      ELSE (IF value = UnsetOption THEN defaultDedupeCacheSize ELSE value)

Max(a, b) == IF a >= b THEN a ELSE b

Min(a, b) == IF a <= b THEN a ELSE b

\* normalizeBackoffPolicy (Go) and resolveBackoffPolicy (TypeScript). The
\* multipliers offered are unset or at least 2, above the TypeScript floor.
normalizeBackoffPolicy(impl, option) ==
    IF impl = "go"
      THEN LET initial == IF option.InitialDelay <= 0
                            THEN defaultInitialBackoffDelay ELSE option.InitialDelay
               maximum == IF option.MaxDelay <= 0
                            THEN defaultMaxBackoffDelay ELSE option.MaxDelay
           IN [InitialDelay |-> initial,
               MaxDelay |-> Max(maximum, initial),
               Multiplier |-> IF option.Multiplier <= 1
                                THEN defaultBackoffMultiplier ELSE option.Multiplier]
      ELSE LET initial == Max(1, IF option.InitialDelay = UnsetOption
                                   THEN defaultInitialBackoffDelay ELSE option.InitialDelay)
               maximum == IF option.MaxDelay = UnsetOption
                            THEN defaultMaxBackoffDelay ELSE option.MaxDelay
           IN [InitialDelay |-> initial,
               MaxDelay |-> Max(initial, maximum),
               Multiplier |-> IF option.Multiplier = UnsetOption
                                THEN defaultBackoffMultiplier ELSE option.Multiplier]

\* isContextEnd (Go); `isAbortError(error) || signal.aborted` (TypeScript).
isContextEnd(outcome, cancelled) ==
    IF outcome = "ok" THEN cancelled ELSE (outcome = "context_error" \/ cancelled)

\* newBackoffState.
newBackoffState(policy) == [policy |-> policy, next |-> policy.InitialDelay]

\* backoffState.Reset that leaves the next delay as it is.
BackoffReset_KeepsNext(state) == state

\* backoffState.Reset.
BackoffReset(state) == [state EXCEPT !.next = state.policy.InitialDelay]

\* backoffState.NextDelay / nextDelayMs: the delay it returns.
NextDelay(state) == state.next

\* backoffState.NextDelay without the upper clamp.
ScaledDelay_NoMaxClamp(state) ==
    LET scaled == state.next * state.policy.Multiplier
    IN IF scaled < state.policy.InitialDelay THEN state.policy.InitialDelay ELSE scaled

\* backoffState.NextDelay / nextDelayMs: the value stored for the next call.
ScaledDelay(state) ==
    LET scaled == state.next * state.policy.Multiplier
        floored == IF scaled < state.policy.InitialDelay
                     THEN state.policy.InitialDelay ELSE scaled
    IN IF floored > state.policy.MaxDelay THEN state.policy.MaxDelay ELSE floored

\* The backoff state after one NextDelay call.
AfterNextDelay(state) == [state EXCEPT !.next = ScaledDelay(state)]

RECURSIVE EvictWhileOver(_, _)
\* RecentEventIdCache.add (TypeScript): shift while the queue exceeds capacity.
EvictWhileOver(queue, capacity) ==
    IF Len(queue) > capacity /\ Len(queue) > 0
      THEN EvictWhileOver(Tail(queue), capacity)
      ELSE queue

\* recentEventIDCache.Add (Go): evict the oldest entry once over capacity.
EvictOldest(queue, capacity) ==
    IF Len(queue) <= capacity THEN queue ELSE Tail(queue)

SeqRange(queue) == {queue[i] : i \in 1..Len(queue)}

\* The queue after Add(eventID); the set is the range of the queue.
CacheAdd(impl, queue, capacity, eventId) ==
    IF eventId \in SeqRange(queue)
      THEN queue
      ELSE IF impl = "go"
             THEN EvictOldest(Append(queue, eventId), capacity)
             ELSE EvictWhileOver(Append(queue, eventId), capacity)

\* The processed queue after deduper.Finish(eventID, success): the eventId is
\* added only on success (in the TypeScript loop, only when onCommand did not
\* throw).
DeduperFinish_AlwaysProcessed(impl, queue, capacity, eventId, success) ==
    CacheAdd(impl, queue, capacity, eventId)

DeduperFinish(impl, queue, capacity, eventId, success) ==
    IF success THEN CacheAdd(impl, queue, capacity, eventId) ELSE queue

\* messageDeduper.Start without the processed-cache check.
DeduperStart_IgnoresProcessed(processed, flying, eventId) == eventId \notin flying

\* messageDeduper.Start without the in-flight check.
DeduperStart_IgnoresInFlight(processed, flying, eventId) == eventId \notin processed

\* messageDeduper.Start: TRUE when the handler is to be invoked.
DeduperStart(processed, flying, eventId) ==
    /\ eventId \notin processed
    /\ eventId \notin flying

NoCommand == 0

\* Bound: message callbacks the MQTT client runs at the same time.
MaxCallbacks == 2

CallbackIds == 1..MaxCallbacks

NoHolder == 0

\* A callback that is not running.
IdleCallback == [pc |-> "idle", eventId |-> NoCommand, success |-> FALSE]

\* sync.Mutex: Lock returns only while no goroutine holds the mutex.
MutexAvailable_Unguarded(mu) == TRUE

MutexAvailable(mu) == mu = NoHolder

\* jobexec.Outcome values; NotExecuted while the executor has not run.
NotExecuted == "none"

ExecOutcomes == {"printed", "failed"}

\* The error buildPrintJobCommandHandler's handler returns after
\* executor.Execute ended with the given outcome.
commandHandlerError_FailedIsError(outcome) == IF outcome = "failed" THEN "error" ELSE "nil"

commandHandlerError(outcome) == "nil"

\* The invocation counter distinguishes never, once and more than once.
CountedOnceMore(n) == IF n = 0 THEN 1 ELSE 2

\* Bound: sessions Connect returned that were never closed.
MaxOpenSessions == 2

\* The sessions Client.Connect returns: a Go Session has Close; the
\* TypeScript MqttSession may come without the optional disconnect ("bare").
SessionKinds(impl) == IF impl = "ts" THEN {"closable", "bare"} ELSE {"closable"}

\* The open sessions after the loop is done with its session: session.Close()
\* in Go; in TypeScript disconnect is called only if the session has one.
SessionsAfterClose(kind, n) == IF kind = "bare" THEN n ELSE n - 1

\* No history is kept.
NoSessionLog == [tracking |-> FALSE, now |-> {}, earlier |-> {}, dropped |-> {}]

\* Nothing recorded yet; the default sleep records nothing.
NoSleeps == [sleep |-> "default", sessions |-> "closable", sleepDurations |-> <<>>, sleepRun |-> 0,
             failureRun |-> 0, cause |-> "none"]

ConsumeInit ==
    /\ loopPc \in [impl : LoopImpls, at : {"connect"}]
    /\ ctxCancelled = FALSE
    /\ \E option \in CacheOptions : cacheCapacity = resolveCacheSize(loopPc.impl, option)
    /\ backoff = newBackoffState(ConsumePolicy)
    /\ inFlight = {}
    /\ processedQueue = <<>>
    /\ processedSet = {}
    /\ brokerSubscribed = FALSE
    /\ everSubscribed = FALSE
    /\ brokerQueue = {}
    /\ publishedOffline = {}
    /\ handlerCalls = [e \in CommandIds |-> 0]
    /\ running = [e \in CommandIds |-> 0]
    /\ execOutcomes = [e \in CommandIds |-> NotExecuted]
    /\ cacheAdds = <<>>
    /\ deduperMu = NoHolder
    /\ callbacks = [k \in CallbackIds |-> IdleCallback]
    /\ harness = NoSleeps
    /\ openSessions = 0
    /\ sessionLog = NoSessionLog
    /\ recent = [lastSucceeded |-> NoCommand, reopened |-> {}]

\* The loop as the reconnect tests run it: a backoff policy from the options,
\* either sleep, and no command published.
ReconnectInit ==
    /\ loopPc \in [impl : LoopImpls, at : {"connect"}]
    /\ ctxCancelled = FALSE
    /\ cacheCapacity = defaultDedupeCacheSize
    /\ \E option \in BackoffOptions :
          backoff = newBackoffState(normalizeBackoffPolicy(loopPc.impl, option))
    /\ inFlight = {}
    /\ processedQueue = <<>>
    /\ processedSet = {}
    /\ brokerSubscribed = FALSE
    /\ everSubscribed = FALSE
    /\ brokerQueue = {}
    /\ publishedOffline = {}
    /\ handlerCalls = [e \in CommandIds |-> 0]
    /\ running = [e \in CommandIds |-> 0]
    /\ execOutcomes = [e \in CommandIds |-> NotExecuted]
    /\ cacheAdds = <<>>
    /\ deduperMu = NoHolder
    /\ callbacks = [k \in CallbackIds |-> IdleCallback]
    /\ \E sleep \in SleepOptions, kind \in SessionKinds(loopPc.impl) :
          harness = [NoSleeps EXCEPT !.sleep = sleep, !.sessions = kind]
    /\ openSessions = 0
    /\ sessionLog = NoSessionLog
    /\ recent = [lastSucceeded |-> NoCommand, reopened |-> {}]

callbackVars == <<cacheAdds, deduperMu, callbacks>>
dedupeVars == <<inFlight, processedQueue, processedSet, handlerCalls, running,
                execOutcomes, callbackVars, recent>>
brokerVars == <<brokerSubscribed, everSubscribed, brokerQueue, publishedOffline>>

\* The recording sleep is called with the delay; sleepRun counts the sleeps
\* and failureRun the connect and subscribe failures since the last
\* successful subscribe.
RecordSleep(h, delay, cause) ==
    IF h.sleep = "default"
      THEN h
      ELSE [h EXCEPT !.sleepDurations = Append(@, delay),
                     !.sleepRun = @ + 1,
                     !.failureRun = IF cause \in {"connect", "subscribe"} THEN @ + 1 ELSE @,
                     !.cause = cause]

RecordSubscribed(h) == [h EXCEPT !.sleepRun = 0, !.failureRun = 0, !.cause = "none"]

SleepAllowed == harness.sleep = "default" \/ Len(harness.sleepDurations) < MaxSleeps

\* After a failed call or the end of a session: return when the context
\* ended, otherwise sleep for backoff.NextDelay().
BackOffOrReturn(outcome, cause) ==
    IF isContextEnd(outcome, ctxCancelled)
      THEN /\ loopPc' = [loopPc EXCEPT !.at = "returned"]
           /\ UNCHANGED <<backoff, harness>>
      ELSE /\ SleepAllowed
           /\ loopPc' = [loopPc EXCEPT !.at = "sleep"]
           /\ backoff' = AfterNextDelay(backoff)
           /\ harness' = RecordSleep(harness, NextDelay(backoff), cause)

\* The handler succeeded for the eventId.
LogSucceeded(log, eventId) ==
    IF log.tracking THEN [log EXCEPT !.now = @ \cup {eventId}] ELSE log

\* The loop subscribed: what succeeded so far belongs to earlier sessions.
LogSubscribed(log) ==
    IF log.tracking THEN [log EXCEPT !.earlier = @ \cup log.now, !.now = {}] ELSE log

\* A delivery of the eventId was handled; invoked tells whether OnCommand ran.
LogDelivery(log, eventId, invoked) ==
    IF log.tracking /\ eventId \in log.earlier /\ ~invoked
      THEN [log EXCEPT !.dropped = @ \cup {eventId}]
      ELSE log

\* The deduper a session's subscribe handler uses: the one created before the
\* loop, whatever sessions came before.
SessionCache_FreshPerSession(queue) == <<>>

SessionCache(queue) == queue

sessionVars == <<harness, openSessions, sessionLog>>

\* The context is cancelled / the abort signal fires.
Cancel ==
    /\ ~ctxCancelled
    /\ loopPc.at \notin {"returned", "threw"}
    /\ ctxCancelled' = TRUE
    /\ UNCHANGED <<loopPc, cacheCapacity, backoff, dedupeVars, brokerVars, sessionVars>>
    /\ UNCHANGED <<engineVars, submitVars, execVars, wireVars>>

\* Client.Connect returns a session or an error.
LoopConnect(outcome) ==
    /\ loopPc.at = "connect"
    /\ IF outcome = "ok"
         THEN /\ openSessions < MaxOpenSessions
              /\ loopPc' = [loopPc EXCEPT !.at = "subscribe"]
              /\ openSessions' = openSessions + 1
              /\ UNCHANGED <<backoff, harness>>
         ELSE /\ BackOffOrReturn(outcome, "connect")
              /\ UNCHANGED openSessions
    /\ UNCHANGED <<ctxCancelled, cacheCapacity, dedupeVars, brokerVars, sessionLog>>
    /\ UNCHANGED <<engineVars, submitVars, execVars, wireVars>>

\* session.Subscribe: on success the backoff is reset and the loop waits for
\* the disconnect; on failure the session is closed and the loop backs off.
LoopSubscribe(outcome) ==
    /\ loopPc.at = "subscribe"
    /\ IF outcome = "ok"
         THEN /\ loopPc' = [loopPc EXCEPT !.at = "waiting"]
              /\ backoff' = BackoffReset(backoff)
              /\ harness' = RecordSubscribed(harness)
              /\ brokerSubscribed' = TRUE
              /\ everSubscribed' = TRUE
              /\ processedQueue' = SessionCache(processedQueue)
              /\ processedSet' = SeqRange(processedQueue')
              /\ sessionLog' = LogSubscribed(sessionLog)
              /\ UNCHANGED <<brokerQueue, publishedOffline, openSessions>>
         ELSE /\ openSessions' = SessionsAfterClose(harness.sessions, openSessions)
              /\ BackOffOrReturn(outcome, "subscribe")
              /\ UNCHANGED <<brokerVars, processedQueue, processedSet, sessionLog>>
    /\ UNCHANGED <<ctxCancelled, cacheCapacity, inFlight, handlerCalls, running, execOutcomes,
                   callbackVars, recent>>
    /\ UNCHANGED <<engineVars, submitVars, execVars, wireVars>>

\* WaitForDisconnect returns (connection lost or context ended); the session
\* is closed, and unless the context ended the loop backs off.
LoopDisconnected(outcome) ==
    /\ loopPc.at = "waiting"
    /\ openSessions' = SessionsAfterClose(harness.sessions, openSessions)
    /\ BackOffOrReturn(outcome, "session_loss")
    /\ brokerSubscribed' = FALSE
    /\ brokerQueue' = IF CleanSession THEN {} ELSE brokerQueue
    /\ UNCHANGED <<ctxCancelled, cacheCapacity, dedupeVars, everSubscribed, publishedOffline,
                   sessionLog>>
    /\ UNCHANGED <<engineVars, submitVars, execVars, wireVars>>

\* Where the loop is once the sleep call has ended: the delay elapsed, or the
\* context ended (Go returns nil; the TypeScript default sleep rejects with
\* AbortError, which nothing catches).
PcAfterSleep_SleepErrorReturned(impl, sleep, cancelled) ==
    IF cancelled THEN "threw" ELSE "connect"

PcAfterSleep(impl, sleep, cancelled) ==
    IF ~cancelled THEN "connect"
    ELSE IF impl = "ts" /\ sleep = "default" THEN "threw" ELSE "returned"

\* The backoff sleep ends.
LoopSleepDone ==
    /\ loopPc.at = "sleep"
    /\ loopPc' = [loopPc EXCEPT !.at = PcAfterSleep(loopPc.impl, harness.sleep, ctxCancelled)]
    /\ UNCHANGED <<ctxCancelled, cacheCapacity, backoff, dedupeVars, brokerVars, sessionVars>>
    /\ UNCHANGED <<engineVars, submitVars, execVars, wireVars>>

\* The backend publishes a command to printers/{printerId}/jobs with QoS 1.
BrokerPublish(e) ==
    /\ IF brokerSubscribed \/ (~CleanSession /\ everSubscribed)
         THEN brokerQueue' = brokerQueue \cup {e}
         ELSE UNCHANGED brokerQueue
    /\ publishedOffline' =
          IF ~brokerSubscribed /\ everSubscribed
            THEN publishedOffline \cup {e} ELSE publishedOffline
    /\ UNCHANGED <<loopPc, ctxCancelled, cacheCapacity, backoff, dedupeVars,
                   brokerSubscribed, everSubscribed>>
    /\ UNCHANGED <<engineVars, submitVars, sessionVars, execVars, wireVars>>

\* The subscribe handler receives a valid command for this printer: parse,
\* printer check, deduper.Start, and (when Start allows) the OnCommand call.
\* The transport is at-least-once: a command the broker holds for the session
\* may be delivered any number of times while the session lasts.
Deliver(e) ==
    /\ brokerSubscribed
    /\ e \in brokerQueue
    /\ LET invoked == DeduperStart(processedSet, inFlight, e)
       IN /\ inFlight' = IF invoked THEN inFlight \cup {e} ELSE inFlight
          /\ handlerCalls' = IF invoked
                               THEN [handlerCalls EXCEPT ![e] = CountedOnceMore(@)]
                               ELSE handlerCalls
          /\ running' = IF invoked
                          THEN [running EXCEPT ![e] = CountedOnceMore(@)]
                          ELSE running
          /\ recent' = [recent EXCEPT !.lastSucceeded = NoCommand]
          /\ sessionLog' = LogDelivery(sessionLog, e, invoked)
    /\ UNCHANGED <<loopPc, ctxCancelled, cacheCapacity, backoff, processedQueue,
                   processedSet, execOutcomes, callbackVars, brokerVars>>
    /\ UNCHANGED <<engineVars, submitVars, harness, openSessions, execVars, wireVars>>

\* The subscribe handler receives a payload that does not decode, fails
\* validation or names another printer: logged and dropped.
DeliverInvalid(kind) ==
    /\ brokerSubscribed
    /\ recent' = [recent EXCEPT !.lastSucceeded = NoCommand]
    /\ UNCHANGED <<loopPc, ctxCancelled, cacheCapacity, backoff, inFlight,
                   processedQueue, processedSet, handlerCalls, running, execOutcomes,
                   callbackVars, brokerVars>>
    /\ UNCHANGED <<engineVars, submitVars, sessionVars, execVars, wireVars>>

\* An OnCommand invocation returns; deduper.Finish(eventID, processErr == nil).
FinishCommand(e, success) ==
    /\ running[e] > 0
    /\ running' = [running EXCEPT ![e] = @ - 1]
    /\ inFlight' = inFlight \ {e}
    /\ LET queue == DeduperFinish(loopPc.impl, processedQueue, cacheCapacity, e, success)
           evicted == (SeqRange(processedQueue) \cup (IF success THEN {e} ELSE {}))
                         \ SeqRange(queue)
       IN /\ processedQueue' = queue
          /\ processedSet' = SeqRange(queue)
          /\ recent' = [lastSucceeded |-> IF success THEN e ELSE NoCommand,
                        reopened |-> recent.reopened \cup evicted
                                        \cup (IF success THEN {} ELSE {e})]
    /\ sessionLog' = IF success THEN LogSucceeded(sessionLog, e) ELSE sessionLog
    /\ UNCHANGED <<loopPc, ctxCancelled, cacheCapacity, backoff, handlerCalls, callbackVars,
                   brokerVars>>
    /\ UNCHANGED <<engineVars, submitVars, harness, openSessions, execVars, wireVars>>

\* Options.OnCommand is a handler that may return an error.
HandlerReturn(e, success) ==
    /\ FinishCommand(e, success)
    /\ UNCHANGED execOutcomes

\* Options.OnCommand is the handler of buildPrintJobCommandHandler: it runs
\* executor.Execute once, logs the result and returns.
ExecutorHandlerReturn(e, outcome) ==
    /\ FinishCommand(e, commandHandlerError(outcome) = "nil")
    /\ execOutcomes' = [execOutcomes EXCEPT ![e] = outcome]

\* One step of the loop itself.
LoopStep ==
    \/ \E outcome \in CallOutcomes : LoopConnect(outcome)
    \/ \E outcome \in CallOutcomes : LoopSubscribe(outcome)
    \/ \E outcome \in CallOutcomes : LoopDisconnected(outcome)
    \/ LoopSleepDone

ReconnectNext ==
    \/ Cancel
    \/ LoopStep

\* ---- the processed cache on its own ----
\* Bound: Add calls made on the cache.
MaxAdds == 4

\* recentEventIDCache.Add (Go) / RecentEventIdCache.add (TypeScript) on the
\* cache's set and queue: nothing for an eventId in the set; otherwise the
\* eventId enters the set and the queue, and every eventId shifted off the
\* queue's head is deleted from the set.
recentCacheAdd_KeepsEvictedInSet(impl, cache, capacity, eventId) ==
    IF eventId \in cache.set
      THEN cache
      ELSE LET appended == Append(cache.queue, eventId)
               kept == IF impl = "go" THEN EvictOldest(appended, capacity)
                                      ELSE EvictWhileOver(appended, capacity)
           IN [set |-> cache.set \cup {eventId}, queue |-> kept]

recentCacheAdd(impl, cache, capacity, eventId) ==
    IF eventId \in cache.set
      THEN cache
      ELSE LET appended == Append(cache.queue, eventId)
               kept == IF impl = "go" THEN EvictOldest(appended, capacity)
                                      ELSE EvictWhileOver(appended, capacity)
               shifted == {appended[i] : i \in 1..(Len(appended) - Len(kept))}
           IN [set |-> (cache.set \cup {eventId}) \ shifted, queue |-> kept]

\* Add(eventID) is called on the loop's cache.
CacheAddCall(e) ==
    /\ Len(cacheAdds) < MaxAdds
    /\ cacheAdds' = Append(cacheAdds, e)
    /\ LET cache == recentCacheAdd(loopPc.impl, [set |-> processedSet, queue |-> processedQueue],
                                   cacheCapacity, e)
       IN /\ processedSet' = cache.set
          /\ processedQueue' = cache.queue
    /\ UNCHANGED <<loopPc, ctxCancelled, cacheCapacity, backoff, inFlight, handlerCalls, running,
                   execOutcomes, deduperMu, callbacks, recent, brokerVars>>
    /\ UNCHANGED <<engineVars, submitVars, sessionVars, execVars, wireVars>>

CacheNext == \E e \in CommandIds : CacheAddCall(e)

\* ---- message callbacks as goroutines ----
\* The MQTT client may run the subscribe handler for several messages at the
\* same time; each run goes through deduper.Start, OnCommand and
\* deduper.Finish, and Start and Finish hold deduper.mu for their whole body.

CallbackFrame ==
    /\ UNCHANGED <<loopPc, ctxCancelled, cacheCapacity, backoff, execOutcomes, cacheAdds,
                   recent, brokerVars>>
    /\ UNCHANGED <<engineVars, submitVars, sessionVars, execVars, wireVars>>

\* The handler is called with a valid command for this printer.
CallbackArrive(k, e) ==
    /\ brokerSubscribed
    /\ callbacks[k].pc = "idle"
    /\ callbacks' = [callbacks EXCEPT ![k] = [IdleCallback EXCEPT !.pc = "start", !.eventId = e]]
    /\ UNCHANGED <<deduperMu, inFlight, processedQueue, processedSet, handlerCalls, running>>
    /\ CallbackFrame

\* deduper.Start: mu.Lock().
CallbackLock(k) ==
    /\ callbacks[k].pc = "start"
    /\ MutexAvailable(deduperMu)
    /\ deduperMu' = k
    /\ callbacks' = [callbacks EXCEPT ![k].pc = "locked"]
    /\ UNCHANGED <<inFlight, processedQueue, processedSet, handlerCalls, running>>
    /\ CallbackFrame

\* deduper.Start: processed.Has and the inFlight lookup; a duplicate returns
\* false (the deferred Unlock runs) and the callback logs and returns nil.
CallbackCheck(k) ==
    /\ callbacks[k].pc = "locked"
    /\ IF DeduperStart(processedSet, inFlight, callbacks[k].eventId)
         THEN /\ callbacks' = [callbacks EXCEPT ![k].pc = "insert"]
              /\ UNCHANGED deduperMu
         ELSE /\ callbacks' = [callbacks EXCEPT ![k].pc = "duplicate"]
              /\ deduperMu' = NoHolder
    /\ UNCHANGED <<inFlight, processedQueue, processedSet, handlerCalls, running>>
    /\ CallbackFrame

\* deduper.Start: the inFlight insert, return true (Unlock), and the call of
\* options.OnCommand.
CallbackInsert(k) ==
    /\ callbacks[k].pc = "insert"
    /\ inFlight' = inFlight \cup {callbacks[k].eventId}
    /\ deduperMu' = NoHolder
    /\ callbacks' = [callbacks EXCEPT ![k].pc = "handler"]
    /\ handlerCalls' = [handlerCalls EXCEPT ![callbacks[k].eventId] = CountedOnceMore(@)]
    /\ running' = [running EXCEPT ![callbacks[k].eventId] = CountedOnceMore(@)]
    /\ UNCHANGED <<processedQueue, processedSet>>
    /\ CallbackFrame

\* options.OnCommand returns processErr.
CallbackHandlerReturns(k, success) ==
    /\ callbacks[k].pc = "handler"
    /\ callbacks' = [callbacks EXCEPT ![k].pc = "finish", ![k].success = success]
    /\ running' = [running EXCEPT ![callbacks[k].eventId] = IF @ > 0 THEN @ - 1 ELSE 0]
    /\ UNCHANGED <<deduperMu, inFlight, processedQueue, processedSet, handlerCalls>>
    /\ CallbackFrame

\* deduper.Finish(eventID, processErr == nil) under mu; the callback returns.
CallbackFinish(k) ==
    /\ callbacks[k].pc = "finish"
    /\ MutexAvailable(deduperMu)
    /\ inFlight' = inFlight \ {callbacks[k].eventId}
    /\ processedQueue' = DeduperFinish(loopPc.impl, processedQueue, cacheCapacity,
                                       callbacks[k].eventId, callbacks[k].success)
    /\ processedSet' = SeqRange(processedQueue')
    /\ callbacks' = [callbacks EXCEPT ![k] = IdleCallback]
    /\ UNCHANGED <<deduperMu, handlerCalls, running>>
    /\ CallbackFrame

\* The callback of a duplicate logs mqtt_duplicate_command_ignored and
\* returns nil.
CallbackDuplicateReturns(k) ==
    /\ callbacks[k].pc = "duplicate"
    /\ callbacks' = [callbacks EXCEPT ![k] = IdleCallback]
    /\ UNCHANGED <<deduperMu, inFlight, processedQueue, processedSet, handlerCalls, running>>
    /\ CallbackFrame

CallbackNext ==
    \/ \E k \in CallbackIds, e \in CommandIds : CallbackArrive(k, e)
    \/ \E k \in CallbackIds : CallbackLock(k)
    \/ \E k \in CallbackIds : CallbackCheck(k)
    \/ \E k \in CallbackIds : CallbackInsert(k)
    \/ \E k \in CallbackIds, success \in BOOLEAN : CallbackHandlerReturns(k, success)
    \/ \E k \in CallbackIds : CallbackFinish(k)
    \/ \E k \in CallbackIds : CallbackDuplicateReturns(k)

\* The Go loop after a successful subscribe, before any message.
CallbackInit ==
    /\ loopPc = [impl |-> "go", at |-> "waiting"]
    /\ ctxCancelled = FALSE
    /\ \E option \in CacheOptions : cacheCapacity = resolveCacheSize("go", option)
    /\ backoff = newBackoffState(ConsumePolicy)
    /\ inFlight = {}
    /\ processedQueue = <<>>
    /\ processedSet = {}
    /\ brokerSubscribed = TRUE
    /\ everSubscribed = TRUE
    /\ brokerQueue = {}
    /\ publishedOffline = {}
    /\ handlerCalls = [e \in CommandIds |-> 0]
    /\ running = [e \in CommandIds |-> 0]
    /\ execOutcomes = [e \in CommandIds |-> NotExecuted]
    /\ cacheAdds = <<>>
    /\ deduperMu = NoHolder
    /\ callbacks = [k \in CallbackIds |-> IdleCallback]
    /\ harness = NoSleeps
    /\ openSessions = 1
    /\ sessionLog = NoSessionLog
    /\ recent = [lastSucceeded |-> NoCommand, reopened |-> {}]

\* The agent binary: ConsumeLoop with the handler of buildPrintJobCommandHandler.
AgentNext ==
    \/ Cancel
    \/ \E outcome \in CallOutcomes : LoopConnect(outcome)
    \/ \E outcome \in CallOutcomes : LoopSubscribe(outcome)
    \/ \E outcome \in CallOutcomes : LoopDisconnected(outcome)
    \/ LoopSleepDone
    \/ \E e \in CommandIds : BrokerPublish(e)
    \/ \E e \in CommandIds : Deliver(e)
    \/ \E e \in CommandIds, outcome \in ExecOutcomes : ExecutorHandlerReturn(e, outcome)

ConsumeNext ==
    \/ Cancel
    \/ \E outcome \in CallOutcomes : LoopConnect(outcome)
    \/ \E outcome \in CallOutcomes : LoopSubscribe(outcome)
    \/ \E outcome \in CallOutcomes : LoopDisconnected(outcome)
    \/ LoopSleepDone
    \/ \E e \in CommandIds : BrokerPublish(e)
    \/ \E e \in CommandIds : Deliver(e)
    \/ \E kind \in InvalidMessageKinds : DeliverInvalid(kind)
    \/ \E e \in CommandIds, success \in BOOLEAN : HandlerReturn(e, success)

(***************************************************************************)
(* Job executor                                                            *)
(***************************************************************************)

\* Bound: Config.MaxDownloadBytes of the executor under check.
MaxDownloadBytes == 6

\* NewExecutor: the byte ceiling in force.
defaultMaxDownloadB == 20 * 1024 * 1024

maxDownloadB == IF MaxDownloadBytes <= 0 THEN defaultMaxDownloadB ELSE MaxDownloadBytes

pdfSignature == <<"%", "P", "D", "F", "-">>

\* strings.TrimSpace on the strings offered below.
TrimSpace(text) ==
    CASE text = " " -> ""
      [] text = " request id is dymo-42\n" -> "request id is dymo-42"
      [] text = " https://storage.example.com/rendered.pdf " -> "https://storage.example.com/rendered.pdf"
      [] OTHER -> text

\* Values offered for the identifier fields of a Command.
FieldValues == {"", " ", "id-123"}

\* Values offered for Command.ObjectURL.
ObjectURLs ==
    {"", " ", "rendered.pdf", "/labels/rendered.pdf", "file:///tmp/rendered.pdf",
     "ftp://example.com/file.pdf", "http://storage.example.com/rendered.pdf",
     "https://storage.example.com/rendered.pdf",
     " https://storage.example.com/rendered.pdf "}

ValidCommand ==
    [EventID |-> "id-123", TraceID |-> "id-123", JobID |-> "id-123",
     PrinterID |-> "id-123", ObjectURL |-> "https://storage.example.com/rendered.pdf"]

\* Commands offered to Execute: the valid command with one field replaced.
ExecCommands ==
    {[ValidCommand EXCEPT !.EventID = v] : v \in FieldValues}
      \cup {[ValidCommand EXCEPT !.TraceID = v] : v \in FieldValues}
      \cup {[ValidCommand EXCEPT !.JobID = v] : v \in FieldValues}
      \cup {[ValidCommand EXCEPT !.PrinterID = v] : v \in FieldValues}
      \cup {[ValidCommand EXCEPT !.ObjectURL = v] : v \in ObjectURLs}

\* validateCommand: the error, or "" for nil.
validateCommand(command) ==
    IF TrimSpace(command.EventID) = "" THEN "eventId is required"
    ELSE IF TrimSpace(command.TraceID) = "" THEN "traceId is required"
    ELSE IF TrimSpace(command.JobID) = "" THEN "jobId is required"
    ELSE IF TrimSpace(command.PrinterID) = "" THEN "printerId is required"
    ELSE IF TrimSpace(command.ObjectURL) = "" THEN "objectUrl is required"
    ELSE ""

\* url.ParseRequestURI on the URLs offered: ok is FALSE when it returns an error.
ParseRequestURI(rawURL) ==
    CASE rawURL = "/labels/rendered.pdf" -> [ok |-> TRUE, Scheme |-> "", Host |-> ""]
      [] rawURL = "file:///tmp/rendered.pdf" -> [ok |-> TRUE, Scheme |-> "file", Host |-> ""]
      [] rawURL = "ftp://example.com/file.pdf" ->
            [ok |-> TRUE, Scheme |-> "ftp", Host |-> "example.com"]
      [] rawURL = "http://storage.example.com/rendered.pdf" ->
            [ok |-> TRUE, Scheme |-> "http", Host |-> "storage.example.com"]
      [] rawURL = "https://storage.example.com/rendered.pdf" ->
            [ok |-> TRUE, Scheme |-> "https", Host |-> "storage.example.com"]
      [] OTHER -> [ok |-> FALSE, Scheme |-> "", Host |-> ""]

\* parseDownloadURL: the error, or "" for nil.
parseDownloadURL(rawURL) ==
    LET parsed == ParseRequestURI(TrimSpace(rawURL))
    IN IF ~parsed.ok THEN "objectUrl must be an absolute URI"
       ELSE IF parsed.Host = "" THEN "objectUrl must include host"
       ELSE IF parsed.Scheme \notin {"http", "https"} THEN "objectUrl scheme is not supported"
       ELSE ""

NoResult == [Outcome |-> "", ErrorCode |-> "", ErrorMessage |-> "", LPOutput |-> ""]

\* failureResult that leaves the error code out.
failureResult_NoCode(code, message, lpOutput) ==
    [Outcome |-> "failed", ErrorCode |-> "", ErrorMessage |-> message, LPOutput |-> lpOutput]

failureResult(code, message, lpOutput) ==
    [Outcome |-> "failed", ErrorCode |-> code, ErrorMessage |-> message, LPOutput |-> lpOutput]

printedResult(lpOutput) ==
    [Outcome |-> "printed", ErrorCode |-> "", ErrorMessage |-> "", LPOutput |-> lpOutput]

\* HTTP status codes offered as the response of the download request.
StatusCodes == {200, 204, 404, 500}

Filler(n) == [i \in 1..n |-> "x"]

\* Response bodies offered: without and with the PDF signature, below, at and
\* above the byte ceiling.
Bodies ==
    { Filler(0), Filler(3), Filler(maxDownloadB), Filler(maxDownloadB + 1),
      pdfSignature, pdfSignature \o Filler(maxDownloadB - 5),
      pdfSignature \o Filler(maxDownloadB - 4), pdfSignature \o Filler(maxDownloadB - 3) }

\* io.LimitReader(body, n) read to the end.
LimitReader(body, n) == SubSeq(body, 1, Min(Len(body), n))

\* bytes.HasPrefix
HasPrefix(payload, prefix) ==
    /\ Len(payload) >= Len(prefix)
    /\ SubSeq(payload, 1, Len(prefix)) = prefix

\* Combined output offered as the return of CommandRunner.Run.
LPOutputs == {"", "lp: printer busy", " request id is dymo-42\n"}

\* What the collaborators answered; "none" while a collaborator was not asked.
NothingSeen ==
    [mkdir |-> "none", http |-> "none", status |-> 0, read |-> "none",
     payload |-> <<>>, spool |-> "none", lp |-> "none", lpRaw |-> ""]

\* The spool file of the call.
SpoolPath == "job-id-123-1.pdf"

\* os.Remove without effect.
RemoveSpoolFile_Kept(files, path) == files

\* os.Remove(path)
RemoveSpoolFile(files, path) == files \ {path}

\* A download that accepts whatever was read.
PayloadError_AcceptsAnything(payload) == ""

\* The download classification of a body that was read in full.
PayloadError_SignatureFirst(payload) ==
    IF ~HasPrefix(payload, pdfSignature) THEN "invalid_pdf_payload"
    ELSE IF Len(payload) > maxDownloadB THEN "download_failed"
    ELSE ""

PayloadError(payload) ==
    IF Len(payload) > maxDownloadB THEN "download_failed"
    ELSE IF ~HasPrefix(payload, pdfSignature) THEN "invalid_pdf_payload"
    ELSE ""

\* The error code Execute reports when os.MkdirAll fails.
MkdirAllErrorCode_Unlisted == "spool_failed"

MkdirAllErrorCode == "spool_prepare_failed"

ExecInit ==
    /\ execCommand \in ExecCommands
    /\ execPc = "validate"
    /\ execSeen = NothingSeen
    /\ spoolFiles = {}
    /\ execResult = NoResult

ExecReturn(result) ==
    /\ execResult' = result
    /\ execPc' = "returned"

\* validateCommand and parseDownloadURL.
ExecValidate ==
    /\ execPc = "validate"
    /\ IF validateCommand(execCommand) # ""
         THEN ExecReturn(failureResult("invalid_command", validateCommand(execCommand), ""))
         ELSE IF parseDownloadURL(execCommand.ObjectURL) # ""
           THEN ExecReturn(failureResult("invalid_command",
                                         parseDownloadURL(execCommand.ObjectURL), ""))
           ELSE /\ execPc' = "mkdir"
                /\ UNCHANGED execResult
    /\ UNCHANGED <<execCommand, execSeen, spoolFiles>>
    /\ UNCHANGED <<engineVars, submitVars, consumeVars, wireVars>>

\* os.MkdirAll(executor.spoolDir, 0o700)
ExecMkdirAll(ok) ==
    /\ execPc = "mkdir"
    /\ execSeen' = [execSeen EXCEPT !.mkdir = IF ok THEN "ok" ELSE "error"]
    /\ IF ok
         THEN /\ execPc' = "request"
              /\ UNCHANGED execResult
         ELSE ExecReturn(failureResult(MkdirAllErrorCode, "create spool directory", ""))
    /\ UNCHANGED <<execCommand, spoolFiles>>
    /\ UNCHANGED <<engineVars, submitVars, consumeVars, wireVars>>

\* downloadPDF: httpClient.Do and the status test.
ExecHttpDo(ok, status) ==
    /\ execPc = "request"
    /\ execSeen' = [execSeen EXCEPT !.http = IF ok THEN "ok" ELSE "error",
                                    !.status = IF ok THEN status ELSE 0]
    /\ IF ~ok
         THEN ExecReturn(failureResult("download_failed", "request rendered PDF", ""))
         ELSE IF status # 200
           THEN ExecReturn(failureResult("download_failed",
                                         "rendered PDF request returned status", ""))
           ELSE /\ execPc' = "read"
                /\ UNCHANGED execResult
    /\ UNCHANGED <<execCommand, spoolFiles>>
    /\ UNCHANGED <<engineVars, submitVars, consumeVars, wireVars>>

\* downloadPDF: io.ReadAll of the limited body, the size test and the signature test.
ExecReadBody(ok, body) ==
    /\ execPc = "read"
    /\ LET payload == LimitReader(body, maxDownloadB + 1)
       IN /\ execSeen' = [execSeen EXCEPT !.read = IF ok THEN "ok" ELSE "error",
                                          !.payload = IF ok THEN payload ELSE <<>>]
          /\ IF ~ok
               THEN ExecReturn(failureResult("download_failed", "read rendered PDF body", ""))
               ELSE IF PayloadError(payload) # ""
                 THEN ExecReturn(failureResult(PayloadError(payload),
                                               "rendered PDF rejected", ""))
                 ELSE /\ execPc' = "create"
                      /\ UNCHANGED execResult
    /\ UNCHANGED <<execCommand, spoolFiles>>
    /\ UNCHANGED <<engineVars, submitVars, consumeVars, wireVars>>

\* downloadPDF: os.CreateTemp in the spool directory.
ExecCreateTemp(ok) ==
    /\ execPc = "create"
    /\ IF ok
         THEN /\ spoolFiles' = spoolFiles \cup {SpoolPath}
              /\ execSeen' = [execSeen EXCEPT !.spool = "created"]
              /\ execPc' = "write"
              /\ UNCHANGED execResult
         ELSE /\ execSeen' = [execSeen EXCEPT !.spool = "create_error"]
              /\ ExecReturn(failureResult("spool_write_failed", "create spool file", ""))
              /\ UNCHANGED spoolFiles
    /\ UNCHANGED execCommand
    /\ UNCHANGED <<engineVars, submitVars, consumeVars, wireVars>>

ExecPcAfterSpoolStep(pc) ==
    CASE pc = "write" -> "chmod"
      [] pc = "chmod" -> "close"
      [] pc = "close" -> "run"

\* downloadPDF: file.Write, file.Chmod(0o600) and file.Close; a failure of
\* any of them removes the file.
ExecSpoolStep(ok) ==
    /\ execPc \in {"write", "chmod", "close"}
    /\ IF ok
         THEN /\ execPc' = ExecPcAfterSpoolStep(execPc)
              /\ UNCHANGED <<execResult, spoolFiles, execSeen>>
         ELSE /\ spoolFiles' = RemoveSpoolFile(spoolFiles, SpoolPath)
              /\ execSeen' = [execSeen EXCEPT !.spool = "write_error"]
              /\ ExecReturn(failureResult("spool_write_failed", execPc, ""))
    /\ UNCHANGED execCommand
    /\ UNCHANGED <<engineVars, submitVars, consumeVars, wireVars>>

\* commandRunner.Run(lp -d printer file), the Result, and the deferred os.Remove.
ExecRunLP(ok, output) ==
    /\ execPc = "run"
    /\ execSeen' = [execSeen EXCEPT !.lp = IF ok THEN "ok" ELSE "error", !.lpRaw = output]
    /\ IF ok
         THEN ExecReturn(printedResult(TrimSpace(output)))
         ELSE ExecReturn(failureResult("print_failed", "lp command failed", TrimSpace(output)))
    /\ spoolFiles' = RemoveSpoolFile(spoolFiles, SpoolPath)
    /\ UNCHANGED execCommand
    /\ UNCHANGED <<engineVars, submitVars, consumeVars, wireVars>>

ExecNext ==
    \/ ExecValidate
    \/ \E ok \in BOOLEAN : ExecMkdirAll(ok)
    \/ \E ok \in BOOLEAN, status \in StatusCodes : ExecHttpDo(ok, status)
    \/ \E ok \in BOOLEAN, body \in Bodies : ExecReadBody(ok, body)
    \/ \E ok \in BOOLEAN : ExecCreateTemp(ok)
    \/ \E ok \in BOOLEAN : ExecSpoolStep(ok)
    \/ \E ok \in BOOLEAN, output \in LPOutputs : ExecRunLP(ok, output)

(***************************************************************************)
(* Command wire format: the agent's payload decoding and the backend's     *)
(* command publisher                                                       *)
(***************************************************************************)

\* A key the JSON object does not carry / an option that is not given.
Absent == "<absent>"

\* Values offered for the fields of a payload.
SchemaVersionTexts == {"1.0.0", "1.9.3", "2.0.0", Absent}

CommandTypeTexts == {"print_job_dispatch", "print_job_status"}

IdentifierTexts == {"id-123", Absent}

PrinterIdTexts == {"printer-01", "printer-02", " "}

PayloadObjectUrls == {"https://storage.example.com/rendered.pdf", "/labels/rendered.pdf", Absent}

IssuedAtTexts ==
    {"2026-02-21T00:00:00Z", "2026-02-21T00:00:00.123456789-05:00", "2026-02-21", Absent}

\* Keys of the payload object besides the eight of PrintJobCommand.
UnknownFieldSets == {{}, {"unexpectedField"}}

\* The payloads offered: a JSON object with the eight string fields (or
\* without some of them) and possibly a further key, or bytes that are not JSON.
Payloads ==
    [syntax : {"object", "not_json"},
     schemaVersion : SchemaVersionTexts, type : CommandTypeTexts,
     eventId : IdentifierTexts, traceId : IdentifierTexts, jobId : IdentifierTexts,
     printerId : PrinterIdTexts, objectUrl : PayloadObjectUrls,
     issuedAt : IssuedAtTexts, unknown : UnknownFieldSets]

\* The zero value a missing key leaves in the struct.
FieldOrZero(text) == IF text = Absent THEN "" ELSE text

\* encoding/json.Unmarshal into PrintJobCommand: a syntax error fails, a
\* missing key leaves the zero value, a key the struct does not have is skipped.
jsonUnmarshal(payload) ==
    [ok |-> payload.syntax = "object",
     command |-> [SchemaVersion |-> FieldOrZero(payload.schemaVersion),
                  Type |-> FieldOrZero(payload.type),
                  EventID |-> FieldOrZero(payload.eventId),
                  TraceID |-> FieldOrZero(payload.traceId),
                  JobID |-> FieldOrZero(payload.jobId),
                  PrinterID |-> FieldOrZero(payload.printerId),
                  ObjectURL |-> FieldOrZero(payload.objectUrl),
                  IssuedAt |-> FieldOrZero(payload.issuedAt)]]

\* schemaVersionPattern.MatchString on the versions offered.
MatchesSchemaVersionPattern(text) == text \in {"1.0.0", "1.9.3"}

\* time.Parse with RFC3339, then RFC3339Nano, on the timestamps offered.
ParsesAsRFC3339(text) ==
    text \in {"2026-02-21T00:00:00Z", "2026-02-21T00:00:00.123456789-05:00"}

validatePrintJobCommand_NoIssuedAtCheck(command) ==
    IF ~MatchesSchemaVersionPattern(command.SchemaVersion)
      THEN "schemaVersion must match major version 1 semver format"
    ELSE IF command.Type # "print_job_dispatch" THEN "type must equal print_job_dispatch"
    ELSE IF TrimSpace(command.EventID) = "" THEN "eventId is required"
    ELSE IF TrimSpace(command.TraceID) = "" THEN "traceId is required"
    ELSE IF TrimSpace(command.JobID) = "" THEN "jobId is required"
    ELSE IF TrimSpace(command.PrinterID) = "" THEN "printerId is required"
    ELSE IF TrimSpace(command.ObjectURL) = "" THEN "objectUrl is required"
    ELSE IF LET objectURL == ParseRequestURI(command.ObjectURL)
            IN ~objectURL.ok \/ objectURL.Scheme = "" \/ objectURL.Host = ""
      THEN "objectUrl must be an absolute URI"
    ELSE ""

\* validatePrintJobCommand: the error, or "" for nil.
validatePrintJobCommand(command) ==
    IF ~MatchesSchemaVersionPattern(command.SchemaVersion)
      THEN "schemaVersion must match major version 1 semver format"
    ELSE IF command.Type # "print_job_dispatch" THEN "type must equal print_job_dispatch"
    ELSE IF TrimSpace(command.EventID) = "" THEN "eventId is required"
    ELSE IF TrimSpace(command.TraceID) = "" THEN "traceId is required"
    ELSE IF TrimSpace(command.JobID) = "" THEN "jobId is required"
    ELSE IF TrimSpace(command.PrinterID) = "" THEN "printerId is required"
    ELSE IF TrimSpace(command.ObjectURL) = "" THEN "objectUrl is required"
    ELSE IF LET objectURL == ParseRequestURI(command.ObjectURL)
            IN ~objectURL.ok \/ objectURL.Scheme = "" \/ objectURL.Host = ""
      THEN "objectUrl must be an absolute URI"
    ELSE IF TrimSpace(command.IssuedAt) = "" THEN "issuedAt is required"
    ELSE IF ~ParsesAsRFC3339(command.IssuedAt) THEN "issuedAt must be a valid RFC3339 timestamp"
    ELSE ""

\* parsePrintJobCommand: ok, the warning logged and its error text.
parsePrintJobCommand(payload) ==
    LET decoded == jsonUnmarshal(payload)
    IN IF ~decoded.ok
         THEN [ok |-> FALSE, warn |-> "mqtt_command_decode_failed", error |-> "syntax error"]
         ELSE IF validatePrintJobCommand(decoded.command) # ""
                THEN [ok |-> FALSE, warn |-> "mqtt_command_schema_invalid",
                      error |-> validatePrintJobCommand(decoded.command)]
                ELSE [ok |-> TRUE, warn |-> "", error |-> ""]

\* Options.PrinterID of the loop under check.
LoopPrinterID == "printer-01"

\* PrinterJobTopic: the topic as its path segments, or <<>> for the error.
PrinterJobTopic(printerID) ==
    IF TrimSpace(printerID) = "" THEN <<>> ELSE <<"printers", TrimSpace(printerID), "jobs">>

\* returned is the callback's return value: "nil" or "error".
NoMessageResult ==
    [outcome |-> "none", warn |-> "", error |-> "", handled |-> {}, returned |-> "nil"]

MessageInit ==
    /\ msgPayload \in Payloads
    /\ msgResult = NoMessageResult

MessageIdle ==
    /\ msgPayload = [syntax |-> "object", schemaVersion |-> "1.0.0",
                     type |-> "print_job_dispatch", eventId |-> "id-123",
                     traceId |-> "id-123", jobId |-> "id-123", printerId |-> "printer-01",
                     objectUrl |-> "https://storage.example.com/rendered.pdf",
                     issuedAt |-> "2026-02-21T00:00:00Z", unknown |-> {}]
    /\ msgResult = NoMessageResult

\* The subscribe handler of ConsumeLoop is called with the payload: parse,
\* printer check, deduper.Start, OnCommand (which succeeds or not) and
\* deduper.Finish.
OnMessage(success) ==
    /\ msgResult.outcome = "none"
    /\ LET parsed == parsePrintJobCommand(msgPayload)
           command == jsonUnmarshal(msgPayload).command
       IN IF ~parsed.ok
            THEN /\ msgResult' = [NoMessageResult EXCEPT !.outcome = "dropped",
                                                         !.warn = parsed.warn,
                                                         !.error = parsed.error]
                 /\ UNCHANGED <<processedQueue, processedSet>>
          ELSE IF command.PrinterID # LoopPrinterID
            THEN /\ msgResult' = [NoMessageResult EXCEPT !.outcome = "dropped",
                                                         !.warn = "mqtt_command_printer_mismatch"]
                 /\ UNCHANGED <<processedQueue, processedSet>>
          ELSE IF ~DeduperStart(processedSet, inFlight, command.EventID)
            THEN /\ msgResult' = [NoMessageResult EXCEPT !.outcome = "duplicate_ignored"]
                 /\ UNCHANGED <<processedQueue, processedSet>>
          ELSE /\ msgResult' =
                     [NoMessageResult EXCEPT
                        !.outcome = IF success THEN "handled" ELSE "handler_failed",
                        !.warn = IF success THEN "" ELSE "mqtt_command_processing_failed",
                        !.handled = {command},
                        !.returned = IF success THEN "nil" ELSE "error"]
               /\ processedQueue' =
                     IF success
                       THEN CacheAdd(loopPc.impl, processedQueue, cacheCapacity, command.EventID)
                       ELSE processedQueue
               /\ processedSet' = SeqRange(processedQueue')
    /\ UNCHANGED <<loopPc, ctxCancelled, cacheCapacity, backoff, inFlight, handlerCalls,
                   running, execOutcomes, callbackVars, recent, brokerVars, sessionVars>>
    /\ UNCHANGED <<msgPayload, pubInput, pubLog, pubResult>>
    /\ UNCHANGED <<engineVars, submitVars, execVars>>

MessageNext == \E success \in BOOLEAN : OnMessage(success)

\* String.prototype.trim (zod's .trim()) on the strings offered below.
ZodTrim(text) ==
    CASE text = " " -> ""
      [] text = "   " -> ""
      [] text = " printer-1 " -> "printer-1"
      [] text = " https://objects.example.com/signed/job-123?sig=abc " ->
            "https://objects.example.com/signed/job-123?sig=abc"
      [] OTHER -> text

\* zod's .url() on the (trimmed) strings offered.
IsZodUrl(text) == text = "https://objects.example.com/signed/job-123?sig=abc"

\* deps.now().toISOString() and the eventId of the default `event-${randomUUID()}`.
NowISOString == "2026-02-20T20:00:00.000Z"

RandomEventId == "event-00000000-0000-4000-8000-000000000000"

\* !Number.isNaN(Date.parse(value)) on the timestamps offered.
DateParses(text) == text \in {"2026-02-20T20:10:00.000Z", NowISOString}

\* Inputs and deps offered to publishPrintJobCommand.
PublishInputs ==
    [jobId : {"job-123", " "}, printerId : {"printer-1", " printer-1 ", "   ", "printer-01"},
     traceId : {"trace-123", ""},
     objectUrl : {"https://objects.example.com/signed/job-123?sig=abc", "/labels/job-1.pdf",
                  " https://objects.example.com/signed/job-123?sig=abc "},
     issuedAt : {Absent, "2026-02-20T20:10:00.000Z", "yesterday"},
     schemaVersion : {Absent, "1.1.0", "2.0.0"},
     createEventId : {Absent, "event-123", " "}]

\* z.string().trim().min(1): the parsed value, or Absent when parsing throws.
NonEmptyTrimmed(text) == IF ZodTrim(text) = "" THEN Absent ELSE ZodTrim(text)

\* schemaVersionSchema: the parsed value, or Absent when parsing throws.
schemaVersionSchema(text) ==
    IF ZodTrim(text) \in {"1.0.0", "1.1.0"} THEN ZodTrim(text) ELSE Absent

\* isoTimestampSchema: the parsed value, or Absent when parsing throws.
isoTimestampSchema(text) ==
    IF ZodTrim(text) # "" /\ DateParses(ZodTrim(text)) THEN ZodTrim(text) ELSE Absent

\* z.string().trim().url(): the parsed value, or Absent when parsing throws.
urlSchema(text) == IF IsZodUrl(ZodTrim(text)) THEN ZodTrim(text) ELSE Absent

\* buildPrinterJobsTopic: the topic as its path segments, <<>> when it throws.
buildPrinterJobsTopic_PerJob(printerId) ==
    IF NonEmptyTrimmed(printerId) = Absent
      THEN <<>>
      ELSE <<"printers", NonEmptyTrimmed(printerId), "jobs", "job-123">>

buildPrinterJobsTopic(printerId) ==
    IF NonEmptyTrimmed(printerId) = Absent
      THEN <<>>
      ELSE <<"printers", NonEmptyTrimmed(printerId), "jobs">>

\* The QoS publishPrintJobCommand passes to the publisher.
PublishQos == 1

\* publishPrintJobCommandInputSchema.parse: ok and the parsed input.
parsePublishInput(input) ==
    LET parsed == [jobId |-> NonEmptyTrimmed(input.jobId),
                   printerId |-> NonEmptyTrimmed(input.printerId),
                   traceId |-> NonEmptyTrimmed(input.traceId),
                   objectUrl |-> urlSchema(input.objectUrl),
                   issuedAt |-> IF input.issuedAt = Absent
                                  THEN Absent ELSE isoTimestampSchema(input.issuedAt)]
    IN [ok |-> /\ parsed.jobId # Absent
               /\ parsed.printerId # Absent
               /\ parsed.traceId # Absent
               /\ parsed.objectUrl # Absent
               /\ (input.issuedAt # Absent => parsed.issuedAt # Absent),
        value |-> parsed]

\* The steps of publishPrintJobCommand before the publish call: ok is FALSE
\* when one of the schema parses throws; otherwise the publish request.
buildPublishRequest(input) ==
    LET parsedInput == parsePublishInput(input)
        issuedAt == IF parsedInput.value.issuedAt = Absent
                      THEN NowISOString ELSE parsedInput.value.issuedAt
        eventId == IF input.createEventId = Absent THEN RandomEventId ELSE input.createEventId
        schemaVersion == schemaVersionSchema(IF input.schemaVersion = Absent
                                               THEN "1.0.0" ELSE input.schemaVersion)
        payload == [schemaVersion |-> schemaVersion,
                    type |-> "print_job_dispatch",
                    eventId |-> NonEmptyTrimmed(eventId),
                    traceId |-> parsedInput.value.traceId,
                    jobId |-> parsedInput.value.jobId,
                    printerId |-> parsedInput.value.printerId,
                    objectUrl |-> parsedInput.value.objectUrl,
                    issuedAt |-> isoTimestampSchema(issuedAt)]
    IN [ok |-> /\ parsedInput.ok
               /\ schemaVersion # Absent
               /\ payload.eventId # Absent
               /\ payload.issuedAt # Absent,
        request |-> [topic |-> buildPrinterJobsTopic(parsedInput.value.printerId),
                     qos |-> PublishQos,
                     payload |-> payload]]

NoPublishResult == [outcome |-> "none", request |-> <<>>]

PublishInit ==
    /\ pubInput \in PublishInputs
    /\ pubLog = <<>>
    /\ pubResult = NoPublishResult

PublishIdle ==
    /\ pubInput = [jobId |-> "job-123", printerId |-> "printer-1", traceId |-> "trace-123",
                   objectUrl |-> "https://objects.example.com/signed/job-123?sig=abc",
                   issuedAt |-> Absent, schemaVersion |-> Absent, createEventId |-> Absent]
    /\ pubLog = <<>>
    /\ pubResult = NoPublishResult

\* publishPrintJobCommand runs: a schema parse throws, or the request is
\* handed to deps.publisher.publish, which resolves or rejects.
PublishCall(publishOk) ==
    /\ pubResult.outcome = "none"
    /\ LET built == buildPublishRequest(pubInput)
       IN IF ~built.ok
            THEN /\ pubResult' = [outcome |-> "validation_threw", request |-> <<>>]
                 /\ UNCHANGED pubLog
            ELSE /\ pubLog' = Append(pubLog, built.request)
                 /\ pubResult' = IF publishOk
                                   THEN [outcome |-> "returned", request |-> <<built.request>>]
                                   ELSE [outcome |-> "publish_threw", request |-> <<>>]
    /\ UNCHANGED <<pubInput, msgPayload, msgResult>>
    /\ UNCHANGED <<engineVars, submitVars, consumeVars, execVars>>

PublishNext == \E publishOk \in BOOLEAN : PublishCall(publishOk)

WireIdle == MessageIdle /\ PublishIdle

(***************************************************************************)
(* Specifications                                                          *)
(***************************************************************************)

\* The parts a specification does not exercise rest in a fixed state.
EngineIdle ==
    /\ currentState = "pending"
    /\ processedEventIds = {}
    /\ lastDecision = NoDecision
    /\ rejectedEventIds = {}
    /\ machineDecision = NoMachineDecision
    /\ racingDecision = NoDecision

ConsumeIdle ==
    /\ loopPc = [impl |-> "go", at |-> "connect"]
    /\ ctxCancelled = FALSE
    /\ cacheCapacity = defaultDedupeCacheSize
    /\ backoff = newBackoffState(ConsumePolicy)
    /\ inFlight = {}
    /\ processedQueue = <<>>
    /\ processedSet = {}
    /\ brokerSubscribed = FALSE
    /\ everSubscribed = FALSE
    /\ brokerQueue = {}
    /\ publishedOffline = {}
    /\ handlerCalls = [e \in CommandIds |-> 0]
    /\ running = [e \in CommandIds |-> 0]
    /\ execOutcomes = [e \in CommandIds |-> NotExecuted]
    /\ cacheAdds = <<>>
    /\ deduperMu = NoHolder
    /\ callbacks = [k \in CallbackIds |-> IdleCallback]
    /\ harness = NoSleeps
    /\ openSessions = 0
    /\ sessionLog = NoSessionLog
    /\ recent = [lastSucceeded |-> NoCommand, reopened |-> {}]

SubmitIdle ==
    /\ jobs = {}
    /\ jobEvents = {}
    /\ calls = [c \in Callers |-> IdleCall]
    /\ published = {}
    /\ entryPoint = "handler"
    /\ failuresLeft = MaxFailures

ExecIdle ==
    /\ execCommand = ValidCommand
    /\ execPc = "validate"
    /\ execSeen = NothingSeen
    /\ spoolFiles = {}
    /\ execResult = NoResult

EngineSpecInit == EngineInit /\ SubmitIdle /\ ConsumeIdle /\ ExecIdle /\ WireIdle

EngineSpec == EngineSpecInit /\ [][EngineNext]_vars

\* The life of one job from its creation: every decision is evaluated on the
\* state and processed set the previous decision produced.
LifecycleSpecInit == EngineIdle /\ SubmitIdle /\ ConsumeIdle /\ ExecIdle /\ WireIdle

LifecycleSpec == LifecycleSpecInit /\ [][EngineNext]_vars

ConcurrentSpec == EngineSpecInit /\ [][ConcurrentNext]_vars

SubmitSpecInit == EngineIdle /\ SubmitInit /\ ConsumeIdle /\ ExecIdle /\ WireIdle

SubmitSpec == SubmitSpecInit /\ [][SubmitNext]_vars

ConsumeSpecInit == EngineIdle /\ SubmitIdle /\ ConsumeInit /\ ExecIdle /\ WireIdle

ConsumeSpec == ConsumeSpecInit /\ [][ConsumeNext]_vars

AgentSpecInit == ConsumeSpecInit /\ loopPc.impl = "go"

CallbackSpecInit == EngineIdle /\ SubmitIdle /\ CallbackInit /\ ExecIdle /\ WireIdle

CallbackSpec == CallbackSpecInit /\ [][CallbackNext]_vars

\* The loop with the history of sessions kept.
RedeliveryInit ==
    /\ loopPc \in [impl : LoopImpls, at : {"connect"}]
    /\ ctxCancelled = FALSE
    /\ \E option \in CacheOptions : cacheCapacity = resolveCacheSize(loopPc.impl, option)
    /\ backoff = newBackoffState(ConsumePolicy)
    /\ inFlight = {}
    /\ processedQueue = <<>>
    /\ processedSet = {}
    /\ brokerSubscribed = FALSE
    /\ everSubscribed = FALSE
    /\ brokerQueue = {}
    /\ publishedOffline = {}
    /\ handlerCalls = [e \in CommandIds |-> 0]
    /\ running = [e \in CommandIds |-> 0]
    /\ execOutcomes = [e \in CommandIds |-> NotExecuted]
    /\ cacheAdds = <<>>
    /\ deduperMu = NoHolder
    /\ callbacks = [k \in CallbackIds |-> IdleCallback]
    /\ harness = NoSleeps
    /\ openSessions = 0
    /\ sessionLog = [NoSessionLog EXCEPT !.tracking = TRUE]
    /\ recent = [lastSucceeded |-> NoCommand, reopened |-> {}]

RedeliverySpecInit == EngineIdle /\ SubmitIdle /\ RedeliveryInit /\ ExecIdle /\ WireIdle

\* The calls of the loop succeed or fail while the context stays live, and
\* the backend publishes while the printer is subscribed.
RedeliveryNext ==
    \/ \E outcome \in {"ok", "error"} : LoopConnect(outcome)
    \/ \E outcome \in {"ok", "error"} : LoopSubscribe(outcome)
    \/ LoopDisconnected("error")
    \/ LoopSleepDone
    \/ \E e \in CommandIds : brokerSubscribed /\ BrokerPublish(e)
    \/ \E e \in CommandIds : Deliver(e)
    \/ \E e \in CommandIds, success \in BOOLEAN : HandlerReturn(e, success)

RedeliverySpec == RedeliverySpecInit /\ [][RedeliveryNext]_vars

\* The cache of either loop, created with the capacity the options give.
CacheSpec == ConsumeSpecInit /\ [][CacheNext]_vars

AgentSpec == AgentSpecInit /\ [][AgentNext]_vars

ReconnectSpecInit == EngineIdle /\ SubmitIdle /\ ReconnectInit /\ ExecIdle /\ WireIdle

ExecSpecInit == EngineIdle /\ SubmitIdle /\ ConsumeIdle /\ ExecInit /\ WireIdle

ExecSpec == ExecSpecInit /\ [][ExecNext]_vars

DispatchSpec == SubmitSpecInit /\ [][DispatchNext]_vars

\* The subscribe handler runs in a loop that has subscribed.
MessageSpecInit == EngineIdle /\ SubmitIdle /\ CallbackInit /\ ExecIdle /\ MessageInit /\ PublishIdle

MessageSpec == MessageSpecInit /\ [][MessageNext]_vars

PublishSpecInit == EngineIdle /\ SubmitIdle /\ ConsumeIdle /\ ExecIdle /\ MessageIdle /\ PublishInit

PublishSpec == PublishSpecInit /\ [][PublishNext]_vars

ReconnectSpec == ReconnectSpecInit /\ [][ReconnectNext]_vars

\* Every call the loop waits on returns, and returns once the context ended.
ReconnectFairSpec == ReconnectSpecInit /\ [][ReconnectNext]_vars /\ WF_vars(LoopStep)

\* Every started step of a call completes, a client whose call threw resends
\* the submission, and a client keeps resending answered submissions.
SubmitFairSpec ==
    /\ SubmitSpecInit
    /\ [][SubmitNext]_vars
    /\ \A c \in Callers : WF_vars(SubmitStep(c)) /\ WF_vars(Retry(c)) /\ WF_vars(Resubmit(c))

(***************************************************************************)
(* Properties                                                              *)
(***************************************************************************)

OwnJobId(c) == createJobId(c, calls[c].generated - 1)

PublishedFor(key) == {p \in published : p.idempotencyKey = key}

\* C1: whatever the interleaving of the lookups and inserts of concurrent
\* submissions, the store holds at most one job per idempotencyKey, every
\* answered submission returns the jobId of the stored job of its key, and no
\* submission fails in its lookup, insert or re-read step (a call throws only
\* as the insert winner whose dispatch failed).
C1_OneJobPerKeySameJobId ==
    /\ \A k \in IdempotencyKeys : Cardinality(findByIdempotencyKey(jobs, k)) <= 1
    /\ \A c \in Callers :
          Answered(c) =>
             \E j \in jobs : j.idempotencyKey = calls[c].key /\ j.jobId = calls[c].result
    /\ \A c \in Callers :
          calls[c].pc = "threw" =>
             /\ entryPoint = "handler"
             /\ \E j \in jobs : /\ j.jobId = OwnJobId(c)
                                /\ j.idempotencyKey = calls[c].key
                                /\ j.state = "pending"

\* C1 witness: every caller submitted the same key and was answered, and one
\* of them lost the insert race (it built a job of its own and returned another).
C1_Witness ==
    /\ \A c \in Callers : Answered(c) /\ calls[c].key = calls[1].key
    /\ \E c \in Callers : calls[c].generated = 1 /\ calls[c].result # OwnJobId(c)
    /\ \E c \in Callers : calls[c].generated = 1 /\ calls[c].result = OwnJobId(c)

\* C2: at most one dispatch command is ever published per idempotencyKey, it
\* carries the stored job of that key, and only the call that inserted the job
\* is in a dispatch step: a call that found the job or lost the race is not.
C2_AtMostOneDispatchPerKey ==
    /\ \A k \in IdempotencyKeys : Cardinality(PublishedFor(k)) <= 1
    /\ \A p \in published :
          \E j \in jobs : /\ j.jobId = p.jobId
                           /\ j.idempotencyKey = p.idempotencyKey
                           /\ j.state = "pending"
    /\ \A c \in Callers :
          calls[c].pc \in {"render", "upload", "sign", "publish"} =>
             /\ calls[c].generated = 1
             /\ calls[c].jobId = OwnJobId(c)
             /\ \E j \in jobs : /\ j.jobId = calls[c].jobId
                                /\ j.idempotencyKey = calls[c].key
                                /\ j.state = "pending"

\* C2 witness: a command was published for a key, one call was answered by
\* replaying the stored job and another after losing the insert race.
C2_Witness ==
    \E p \in published :
       /\ \E c \in Callers : /\ Answered(c) /\ calls[c].key = p.idempotencyKey
                             /\ calls[c].generated = 0 /\ calls[c].result = p.jobId
       /\ \E c \in Callers : /\ Answered(c) /\ calls[c].key = p.idempotencyKey
                             /\ calls[c].generated = 1 /\ calls[c].result = p.jobId
                             /\ calls[c].result # OwnJobId(c)

\* C3: every job that handleCreatePrintJob persisted eventually has a dispatch
\* command published, also when a dispatch step failed and the client retried.
C3_AcceptedEventuallyPublished ==
    \A k \in IdempotencyKeys :
       (entryPoint = "handler" /\ findByIdempotencyKey(jobs, k) # {}) ~> (PublishedFor(k) # {})

\* C19: when the first lookup (the only step of a call at "find") finds a job
\* for the idempotencyKey, the call
\* answers with the jobId, state, acceptedAt and traceId of that job and the
\* jobs, the job events and the published commands are unchanged: no insert,
\* render, upload or publish.
C19_ReplayReturnsExistingNoWrites ==
    [][\A c \in Callers :
          (/\ calls[c].pc = "find"
           /\ calls'[c] # calls[c]
           /\ findByIdempotencyKey(jobs, calls[c].key) # {}) =>
             /\ jobs' = jobs
             /\ jobEvents' = jobEvents
             /\ published' = published
             /\ calls'[c].pc = "done"
             /\ calls'[c].duplicate
             /\ \E j \in findByIdempotencyKey(jobs, calls[c].key) :
                   calls'[c].body = [jobId |-> j.jobId, state |-> j.state,
                                     acceptedAt |-> j.acceptedAt, traceId |-> j.traceId]]_vars

\* C19 witness: a call was answered from its first lookup with the job another
\* request had stored.
C19_Witness ==
    \E c \in Callers :
       /\ Answered(c)
       /\ calls[c].generated = 0
       /\ calls[c].duplicate
       /\ calls[c].body.traceId # RequestTraceId(c)
       /\ \E j \in jobs : j.jobId = calls[c].body.jobId /\ j.idempotencyKey = calls[c].key

\* The call lost the insert race: its insert was rejected.
LostRace(c) ==
    \/ calls[c].pc = "reread"
    \/ Answered(c) /\ calls[c].duplicate /\ calls[c].jobId # calls[c].body.jobId

\* C20: a submission whose insert was rejected as a duplicate answers with the
\* stored job of its key as a duplicate, and the jobId it generated is in no
\* stored job, no job event and no published command.
C20_RaceLoserLeavesNoTrace ==
    \A c \in Callers :
       LostRace(c) =>
          /\ calls[c].jobId = OwnJobId(c)
          /\ \A j \in jobs : j.jobId # calls[c].jobId
          /\ \A e \in jobEvents : e.jobId # calls[c].jobId
          /\ \A p \in published : p.jobId # calls[c].jobId
          /\ Answered(c) =>
                \E j \in findByIdempotencyKey(jobs, calls[c].key) :
                   /\ calls[c].body = toAcceptedResponse(j)
                   /\ calls[c].result = j.jobId
                   /\ j.traceId # RequestTraceId(c)

\* C20 witness: a call of handleCreatePrintJob lost the race and was answered
\* while the winner's command is published.
C20_Witness ==
    \E c \in Callers :
       /\ entryPoint = "handler"
       /\ Answered(c)
       /\ LostRace(c)
       /\ calls[c].result # OwnJobId(c)
       /\ PublishedFor(calls[c].key) # {}
       /\ \E e \in jobEvents : e.jobId = calls[c].result

\* C4 (as claimed): the handler is invoked at most once per distinct eventId.
C4_HandlerAtMostOncePerEventId == \A e \in CommandIds : handlerCalls[e] <= 1

\* C4 (amended): the handler is invoked a second time for an eventId only if
\* an invocation for it returned an error or the eventId was evicted from the
\* processed cache.
C4_HandlerOnceUnlessReopened ==
    \A e \in CommandIds : handlerCalls[e] >= 2 => e \in recent.reopened

\* C4 witness: the handler ran twice for an eventId that was reopened, while
\* another eventId that succeeded once is held in the processed cache.
C4_Witness ==
    \E e1, e2 \in CommandIds :
       /\ e1 # e2
       /\ handlerCalls[e1] = 2
       /\ e1 \in recent.reopened
       /\ handlerCalls[e2] = 1
       /\ e2 \in processedSet
       /\ e2 \notin recent.reopened

\* C5: when a valid command is delivered again right after its handler
\* succeeded, the handler is not invoked a second time.
C5_SecondDeliveryIgnored ==
    [][\A e \in CommandIds :
          (Deliver(e) /\ recent.lastSucceeded = e) =>
              (handlerCalls'[e] = handlerCalls[e] /\ inFlight' = inFlight)]_vars

\* C6: a command published between a session loss and the next successful
\* subscribe of the Go agent is not lost: once the loop is subscribed again
\* the broker holds it for the agent or the handler has been invoked for it.
C6_OfflineCommandsKept ==
    (loopPc.impl = "go" /\ brokerSubscribed) =>
        \A e \in publishedOffline : e \in brokerQueue \/ handlerCalls[e] > 0

RECURSIVE Pow(_, _)
Pow(base, exponent) == IF exponent = 0 THEN 1 ELSE base * Pow(base, exponent - 1)

\* min(maxDelay, initialDelay * multiplier^(k-1))
ExpectedDelay(policy, k) ==
    Min(policy.MaxDelay, policy.InitialDelay * Pow(policy.Multiplier, k - 1))

Last(seq) == seq[Len(seq)]

RecordedDelaysInPolicy ==
    \A i \in 1..Len(harness.sleepDurations) :
        /\ harness.sleepDurations[i] >= backoff.policy.InitialDelay
        /\ harness.sleepDurations[i] <= backoff.policy.MaxDelay

TestBackoffPolicy == [InitialDelay |-> 100, MaxDelay |-> 1000, Multiplier |-> 2]

\* Two failed connects from the start, under the policy of the test.
TwoFailedConnects ==
    /\ backoff.policy = TestBackoffPolicy
    /\ Len(harness.sleepDurations) = 2
    /\ harness.failureRun = 2

C12_ReturnsOnlyWhenCancelled ==
    (loopPc.impl = "go" /\ loopPc.at \in {"returned", "threw"}) => ctxCancelled

\* C13: once the context is cancelled the Go ConsumeLoop returns nil, and
\* every session Connect returned has been closed by then.
C13_CancelReturnsNilSessionsClosed ==
    (loopPc.impl = "go" /\ ctxCancelled) ~> (loopPc.at = "returned" /\ openSessions = 0)

\* C13 witness: the Go loop returned nil after a cancellation that found it
\* subscribed, with its session closed.
C13_Witness ==
    /\ loopPc = [impl |-> "go", at |-> "returned"]
    /\ ctxCancelled
    /\ everSubscribed
    /\ openSessions = 0

\* C14: the promise of the TypeScript consumePrinterJobCommands never rejects.
C14_AbortResolves == loopPc.impl = "ts" => loopPc.at # "threw"

\* C15: the Result Execute returns has Outcome printed or failed; it is failed
\* exactly when ErrorCode is non-empty, and printed only if the print command
\* was invoked and returned no error.
C15_ExecuteReturnsTerminalResult ==
    execPc = "returned" =>
        /\ execResult.Outcome \in {"printed", "failed"}
        /\ (execResult.Outcome = "failed") <=> (execResult.ErrorCode # "")
        /\ execResult.Outcome = "printed" => execSeen.lp = "ok"

\* C15 witness: a call that printed.
C15_Witness ==
    /\ execPc = "returned"
    /\ execResult.Outcome = "printed"
    /\ execSeen.lp = "ok"

\* An empty field, or an objectUrl that is relative or not http(s).
ClaimedInvalidCommand(command) ==
    \/ "" \in {command.EventID, command.TraceID, command.JobID, command.PrinterID,
                command.ObjectURL}
    \/ command.ObjectURL \in {"rendered.pdf", "/labels/rendered.pdf",
                               "file:///tmp/rendered.pdf", "ftp://example.com/file.pdf"}

\* A fetch error, a non-success status, or a body over the limit.
ClaimedDownloadFailure(seen) ==
    \/ seen.http = "error"
    \/ seen.http = "ok" /\ seen.status \notin 200..299
    \/ seen.read = "error"
    \/ seen.read = "ok" /\ Len(seen.payload) > maxDownloadB

\* C16: failures are classified by the first stage that fails: invalid
\* command, download failure, missing PDF signature, print command error
\* (with the captured output in LPOutput).
C16_FailuresClassifiedByStage ==
    execPc = "returned" =>
        /\ ClaimedInvalidCommand(execCommand) => execResult.ErrorCode = "invalid_command"
        /\ ClaimedDownloadFailure(execSeen) => execResult.ErrorCode = "download_failed"
        /\ (execSeen.read = "ok" /\ Len(execSeen.payload) <= maxDownloadB
              /\ ~HasPrefix(execSeen.payload, pdfSignature)) =>
                 execResult.ErrorCode = "invalid_pdf_payload"
        /\ execSeen.lp = "error" =>
              /\ execResult.ErrorCode = "print_failed"
              /\ execResult.LPOutput = TrimSpace(execSeen.lpRaw)

\* C16 witness: the print command failed and its output is in the Result.
C16_Witness ==
    /\ execPc = "returned"
    /\ execSeen.lp = "error"
    /\ execSeen.lpRaw = "lp: printer busy"
    /\ execResult.LPOutput = "lp: printer busy"

ClaimedErrorCodes ==
    {"invalid_command", "download_failed", "invalid_pdf_payload", "spool_write_failed",
     "print_failed"}

\* C17: every failed Result carries an ErrorCode from the five listed codes.
C17_ErrorCodeInListedSet ==
    (execPc = "returned" /\ execResult.Outcome = "failed") =>
        execResult.ErrorCode \in ClaimedErrorCodes

\* C17 (amended): every failed Result carries one of the five listed codes
\* or spool_prepare_failed.
C17_ErrorCodeInListedSetOrSpoolPrepare ==
    (execPc = "returned" /\ execResult.Outcome = "failed") =>
        execResult.ErrorCode \in ClaimedErrorCodes \cup {"spool_prepare_failed"}

\* C17 witness: the spool directory could not be created.
C17_Witness ==
    /\ execPc = "returned"
    /\ execSeen.mkdir = "error"
    /\ execResult.ErrorCode = "spool_prepare_failed"

ClaimedEdges ==
    { <<"pending", "processing", "backend">>,
      <<"processing", "dispatched", "backend">>,
      <<"processing", "failed", "backend">>,
      <<"dispatched", "printed", "agent">>,
      <<"dispatched", "failed", "agent">> }

ClaimedEdge(d) == \E edge \in ClaimedEdges : edge[1] = d.currentState /\ edge[2] = d.event.targetState

ClaimedAuthorized(d) == <<d.currentState, d.event.targetState, d.event.source>> \in ClaimedEdges

\* C7: a decision accepts only an event on one of the five matrix edges sent
\* by the edge's authorized source; every other combination is rejected with
\* nextState equal to currentState.
C7_AcceptsOnlyAuthorizedEdges ==
    lastDecision.called =>
        /\ lastDecision.accepted => ClaimedAuthorized(lastDecision)
        /\ ~ClaimedAuthorized(lastDecision) =>
              /\ ~lastDecision.accepted
              /\ lastDecision.nextState = lastDecision.currentState

\* C7 witness: backend asked for dispatched -> printed and was rejected.
C7_Witness ==
    /\ lastDecision.called
    /\ lastDecision.currentState = "dispatched"
    /\ lastDecision.event.targetState = "printed"
    /\ lastDecision.event.source = "backend"
    /\ lastDecision.reason = "authority_violation"
    /\ currentState = "dispatched"

\* C8: an event whose eventId is in the processedEventIds returned by an
\* accepted decision is rejected with duplicate_event and leaves the state
\* unchanged, whatever its target state or source.
C8_ReplayRejectedAsDuplicate ==
    (lastDecision.called /\ lastDecision.event.eventId \in lastDecision.processedIn) =>
        /\ ~lastDecision.accepted
        /\ lastDecision.reason = "duplicate_event"
        /\ lastDecision.nextState = lastDecision.currentState
        /\ lastDecision.processedEventIds = lastDecision.processedIn

\* C8 witness: the eventId accepted for pending -> processing is reused for
\* processing -> dispatched by backend, an edge that is otherwise accepted.
C8_Witness ==
    /\ lastDecision.called
    /\ lastDecision.event.eventId \in lastDecision.processedIn
    /\ lastDecision.currentState = "processing"
    /\ lastDecision.event.targetState = "dispatched"
    /\ lastDecision.event.source = "backend"
    /\ lastDecision.reason = "duplicate_event"

\* C9 (as claimed): in a terminal state every further event is rejected with
\* terminal_state_locked.
C9_TerminalAlwaysLocked ==
    (lastDecision.called /\ lastDecision.currentState \in {"printed", "failed"}) =>
        ~lastDecision.accepted /\ lastDecision.reason = "terminal_state_locked"

\* C9 (amended): in a terminal state every further event is rejected and the
\* state is unchanged; the reason is terminal_state_locked unless the eventId
\* was already processed, in which case it is duplicate_event.
C9_TerminalLockedForNewEvents ==
    (lastDecision.called /\ lastDecision.currentState \in {"printed", "failed"}) =>
        /\ ~lastDecision.accepted
        /\ lastDecision.nextState = lastDecision.currentState
        /\ lastDecision.reason =
              IF lastDecision.event.eventId \in lastDecision.processedIn
                THEN "duplicate_event" ELSE "terminal_state_locked"

\* C9 witness: a job in failed receives a new event and stays failed.
C9_Witness ==
    /\ lastDecision.called
    /\ lastDecision.currentState = "failed"
    /\ lastDecision.event.eventId \notin lastDecision.processedIn
    /\ lastDecision.processedIn # {}
    /\ lastDecision.reason = "terminal_state_locked"
    /\ currentState = "failed"

\* C10 (as claimed): every event whose edge is not in the matrix is rejected
\* with invalid_transition and leaves the state unchanged.
C10_OffMatrixInvalid ==
    (lastDecision.called /\ ~ClaimedEdge(lastDecision)) =>
        /\ ~lastDecision.accepted
        /\ lastDecision.reason = "invalid_transition"
        /\ lastDecision.nextState = lastDecision.currentState

\* C10 (amended): every event whose edge is not in the matrix is rejected and
\* leaves the state unchanged; the reason is invalid_transition when the
\* eventId is new and the current state is not terminal, duplicate_event for
\* a processed eventId, terminal_state_locked for a new eventId in a terminal state.
C10_OffMatrixRejected ==
    (lastDecision.called /\ ~ClaimedEdge(lastDecision)) =>
        /\ ~lastDecision.accepted
        /\ lastDecision.nextState = lastDecision.currentState
        /\ lastDecision.reason =
              IF lastDecision.event.eventId \in lastDecision.processedIn
                THEN "duplicate_event"
              ELSE IF lastDecision.currentState \in {"printed", "failed"}
                THEN "terminal_state_locked"
              ELSE "invalid_transition"

\* C10 witness: pending -> dispatched with a new eventId is rejected as invalid_transition.
C10_Witness ==
    /\ lastDecision.called
    /\ lastDecision.currentState = "pending"
    /\ lastDecision.event.targetState = "dispatched"
    /\ lastDecision.event.eventId \notin lastDecision.processedIn
    /\ lastDecision.reason = "invalid_transition"
    /\ currentState = "pending"

C22_PublishedOnceToPrinterTopic ==
    /\ Len(pubLog) <= 1
    /\ ~parsePublishInput(pubInput).ok => pubLog = <<>>
    /\ pubResult.outcome = "validation_threw" => pubLog = <<>>
    /\ pubResult.outcome \in {"returned", "publish_threw"} => Len(pubLog) = 1
    /\ pubResult.outcome = "returned" => pubResult.request = pubLog
    /\ \A i \in 1..Len(pubLog) :
          /\ pubLog[i].qos = 1
          /\ pubLog[i].topic = <<"printers", pubLog[i].payload.printerId, "jobs">>
          /\ pubLog[i].topic = PrinterJobTopic(pubLog[i].payload.printerId)
          /\ pubLog[i].payload.printerId = ZodTrim(pubInput.printerId)

\* C22 witness: a command was published for an input whose printerId came
\* with surrounding blanks.
C22_Witness ==
    /\ pubResult.outcome = "returned"
    /\ Len(pubLog) = 1
    /\ pubInput.printerId = " printer-1 "
    /\ pubLog[1].topic = <<"printers", "printer-1", "jobs">>

\* C23: every job for which a command has been published is persisted in
\* state dispatched.
C23_PublishedJobIsDispatched ==
    \A p \in published :
       \E j \in jobs : j.jobId = p.jobId /\ j.state = "dispatched"

\* The side effects of handleCreatePrintJob for a new submission, in order.
DispatchOrder == <<"insert", "render", "upload", "sign", "publish", "done">>

IndexInOrder(pc) == CHOOSE i \in 1..Len(DispatchOrder) : DispatchOrder[i] = pc

\* C29: a call of handleCreatePrintJob moves through insertAccepted, renderPdf,
\* uploadRenderedPdf, createRenderedPdfDownloadUrl and publish in this order,
\* one step at a time; a command is published only by a call that is at the
\* publish step; and a step after the insert either succeeds or makes the
\* call throw with no response while the job stays persisted.
C29_DispatchInOrderAfterInsert ==
    [][entryPoint = "handler" =>
         \A c \in Callers :
            /\ (calls[c].pc \in {"insert", "render", "upload", "sign", "publish"}
                  /\ calls'[c].pc # calls[c].pc) =>
                  \/ calls'[c].pc = DispatchOrder[IndexInOrder(calls[c].pc) + 1]
                  \/ /\ calls[c].pc = "insert"
                     /\ calls'[c].pc = "reread"
                     /\ jobs' = jobs
                  \/ /\ calls[c].pc # "insert"
                     /\ calls'[c].pc = "threw"
                     /\ calls'[c].status = 0
                     /\ calls'[c].body = NoResponse
                     /\ published' = published
                     /\ \E j \in jobs' : j.jobId = calls[c].jobId
            /\ (calls[c].pc = "publish" /\ calls'[c].pc = "done") =>
                  /\ calls'[c].status = 202
                  /\ published' \ published # {}
                  /\ \E j \in jobs : j.jobId = calls[c].jobId
            /\ \A p \in published' \ published :
                  /\ calls[c].jobId = p.jobId => calls[c].pc \in {"publish", "done"}
                  /\ \E d \in Callers : /\ calls[d].pc = "publish"
                                        /\ calls'[d].pc = "done"
                                        /\ calls[d].jobId = p.jobId]_vars

\* C29 witness: one call threw after its insert and another call published.
C29_Witness ==
    /\ entryPoint = "handler"
    /\ \E c \in Callers :
          /\ calls[c].pc = "threw"
          /\ \E j \in jobs : j.jobId = calls[c].jobId
          /\ \A p \in published : p.jobId # calls[c].jobId
    /\ \E c \in Callers :
          /\ Answered(c)
          /\ \E p \in published : p.jobId = calls[c].jobId

\* The reason the claimed order of checks gives for a decision's input.
ClaimedReason(d) ==
    IF d.event.eventId \in d.processedIn THEN "duplicate_event"
    ELSE IF d.currentState \in {"printed", "failed"} THEN "terminal_state_locked"
    ELSE IF ~ClaimedEdge(d) THEN "invalid_transition"
    ELSE IF ~ClaimedAuthorized(d) THEN "authority_violation"
    ELSE "none"

\* C24: when several rejection conditions hold for one call, the reason is
\* the first that applies in the order duplicate_event, terminal_state_locked,
\* invalid_transition, authority_violation; authority_violation is returned
\* only for a matrix edge requested by the wrong source from a non-terminal
\* state with an unprocessed eventId.
C24_FirstApplicableReason ==
    lastDecision.called =>
        /\ lastDecision.reason = ClaimedReason(lastDecision)
        /\ lastDecision.accepted <=> lastDecision.reason = "none"
        /\ lastDecision.reason = "authority_violation" =>
              /\ ClaimedEdge(lastDecision)
              /\ ~ClaimedAuthorized(lastDecision)
              /\ lastDecision.currentState \notin {"printed", "failed"}
              /\ lastDecision.event.eventId \notin lastDecision.processedIn

\* C24 witness: the agent asks for pending -> dispatched with a fresh eventId:
\* the pair is off the matrix and no edge authorizes the source, and the
\* reason is invalid_transition.
C24_Witness ==
    /\ lastDecision.called
    /\ lastDecision.currentState = "pending"
    /\ lastDecision.event.targetState = "dispatched"
    /\ lastDecision.event.source = "agent"
    /\ lastDecision.event.eventId \notin lastDecision.processedIn
    /\ lastDecision.reason = "invalid_transition"

\* C27: the returned processedEventIds is the input set plus event.eventId
\* when the decision accepts and the input set when it rejects; the caller's
\* input set is not mutated, so an eventId rejected earlier is accepted by a
\* later call whose edge and source are authorized.
C27_ReturnedSetAndInputFrame ==
    lastDecision.called =>
        /\ lastDecision.inputAfter = lastDecision.processedIn
        /\ lastDecision.accepted =>
              lastDecision.processedEventIds =
                  lastDecision.processedIn \cup {lastDecision.event.eventId}
        /\ ~lastDecision.accepted =>
              lastDecision.processedEventIds = lastDecision.processedIn
        /\ ( /\ lastDecision.event.eventId \in rejectedEventIds
             /\ lastDecision.event.eventId \notin lastDecision.processedIn
             /\ ClaimedAuthorized(lastDecision) ) => lastDecision.accepted

\* C27 witness: an eventId rejected as invalid_transition by an earlier call
\* is accepted by the latest call.
C27_Witness ==
    /\ lastDecision.called
    /\ lastDecision.accepted
    /\ lastDecision.event.eventId \in rejectedEventIds
    /\ lastDecision.processedEventIds # lastDecision.processedIn
    /\ lastDecision.inputAfter = lastDecision.processedIn

\* The claimed lifecycle: pending -> processing -> (dispatched -> (printed |
\* failed) | failed).
ClaimedLifecycleSteps ==
    { <<"pending", "processing">>, <<"processing", "dispatched">>, <<"processing", "failed">>,
      <<"dispatched", "printed">>, <<"dispatched", "failed">> }

\* Number of accepted transitions a job in the given state can have behind it.
ClaimedAcceptedCounts(state) ==
    CASE state = "pending" -> {0}
      [] state = "processing" -> {1}
      [] state = "dispatched" -> {2}
      [] state = "printed" -> {3}
      [] state = "failed" -> {2, 3}

\* C26: starting from pending, with every decision evaluated on the state and
\* processedEventIds of the previous one, the accepted transitions form a
\* prefix of the claimed lifecycle: at most three are accepted, each changes
\* the state along a lifecycle step (so no state is re-entered), a rejected
\* decision changes nothing, and printed and failed are never left.
C26_AcceptedTransitionsFollowLifecycle ==
    /\ [](/\ Cardinality(processedEventIds) \in ClaimedAcceptedCounts(currentState)
          /\ Cardinality(processedEventIds) <= 3)
    /\ [][ /\ lastDecision'.accepted =>
                /\ <<currentState, currentState'>> \in ClaimedLifecycleSteps
                /\ Cardinality(processedEventIds') = Cardinality(processedEventIds) + 1
           /\ ~lastDecision'.accepted =>
                currentState' = currentState /\ processedEventIds' = processedEventIds
           /\ currentState \in {"printed", "failed"} => currentState' = currentState ]_vars

\* C26 witness: the job went pending -> processing -> dispatched -> printed on
\* three accepted events and a fourth, fresh event was then rejected.
C26_Witness ==
    /\ currentState = "printed"
    /\ Cardinality(processedEventIds) = 3
    /\ lastDecision.called
    /\ lastDecision.currentState = "printed"
    /\ lastDecision.event.eventId \notin lastDecision.processedIn
    /\ ~lastDecision.accepted

\* C28: the xstate-based and the static-matrix engines agree on every input:
\* isTransitionAllowed and sourceCanApplyTransition return the same boolean
\* and applyPrintJobTransition returns the same accepted flag, reason and
\* nextState.
C28_MachineAndMatrixAgree ==
    lastDecision.called =>
        /\ machineDecision.machineAllowed = machineDecision.matrixAllowed
        /\ machineDecision.machineSourceCan = machineDecision.matrixSourceCan
        /\ machineDecision.decision.accepted = lastDecision.accepted
        /\ machineDecision.decision.reason = lastDecision.reason
        /\ machineDecision.decision.nextState = lastDecision.nextState

\* C28 witness: the agent asks for processing -> failed, an edge of both
\* tables that only the backend may take, and both engines answer
\* authority_violation.
C28_Witness ==
    /\ lastDecision.called
    /\ lastDecision.currentState = "processing"
    /\ lastDecision.event.targetState = "failed"
    /\ lastDecision.event.source = "agent"
    /\ lastDecision.reason = "authority_violation"
    /\ machineDecision.decision.reason = "authority_violation"
    /\ machineDecision.machineAllowed
    /\ ~machineDecision.machineSourceCan

\* C30: when the handler returns an error for a command, its eventId leaves
\* the in-flight set and is not added to the processed cache, so the deduper
\* admits the next delivery of the same eventId and the handler is invoked
\* again. (A handler return that is not a success leaves recent.lastSucceeded
\* at NoCommand.)
C30_FailedCommandIsRetriedOnRedelivery ==
    [][\A e \in CommandIds :
          (e \in inFlight /\ e \notin inFlight' /\ recent'.lastSucceeded # e) =>
              /\ e \notin processedSet'
              /\ processedQueue' = processedQueue
              /\ processedSet' = processedSet
              /\ DeduperStart(processedSet', inFlight', e)]_vars

\* C30 witness: no command has succeeded, the handler failed on a command,
\* and the command's redelivery has invoked the handler a second time.
C30_Witness ==
    \E e \in CommandIds :
        /\ cacheCapacity >= 1
        /\ processedQueue = <<>>
        /\ e \in recent.reopened
        /\ e \in inFlight
        /\ handlerCalls[e] = 2

\* C25: two transitions on the same job are never both accepted from the
\* same pre-transition state: with the job dispatched, an agent event
\* targeting printed and an agent event targeting failed with distinct
\* eventIds, arriving concurrently, are not both accepted.
C25_ConcurrentEventsNotBothAccepted ==
    (lastDecision.called /\ racingDecision.called
        /\ lastDecision.event.eventId # racingDecision.event.eventId) =>
            ~(lastDecision.accepted /\ racingDecision.accepted)

\* C31: the production command handler returns nil for every execution
\* result, so a command whose execution ended in failed is marked processed,
\* and no delivery of its eventId runs the executor again while the eventId
\* is in the processed cache.
C31_FailedExecutionIsMarkedProcessed ==
    [][\A e \in CommandIds :
          /\ (running'[e] < running[e] /\ execOutcomes'[e] = "failed") =>
                /\ e \in processedSet'
                /\ e \notin inFlight'
          /\ e \in processedSet =>
                (handlerCalls'[e] = handlerCalls[e] /\ running'[e] <= running[e])]_vars

\* C31 witness: the only execution so far ended in failed, its eventId is in
\* the processed cache, and a later delivery of it was dropped (the callback
\* after the handler's return cleared recent.lastSucceeded without invoking
\* any handler).
C31_Witness ==
    \E e \in CommandIds :
        /\ execOutcomes[e] = "failed"
        /\ processedQueue = <<e>>
        /\ handlerCalls[e] = 1
        /\ \A other \in CommandIds \ {e} : handlerCalls[other] = 0
        /\ \A any \in CommandIds : running[any] = 0
        /\ recent.lastSucceeded = NoCommand

C33_InFlightIsRunningHandlers ==
    /\ inFlight = {e \in CommandIds : running[e] > 0}
    /\ inFlight \cap processedSet = {}

\* C33 (amended): the in-flight set contains exactly the eventIds of the
\* callbacks for which Start returned true and Finish has not run yet (the
\* handler is running, or has returned and Finish is waiting for the mutex);
\* every eventId whose handler is running is in it, and no eventId is in
\* both the in-flight set and the processed cache.
C33_InFlightIsStartedUnfinished ==
    /\ inFlight = {callbacks[k].eventId :
                     k \in {c \in CallbackIds : callbacks[c].pc \in {"handler", "finish"}}}
    /\ \A e \in CommandIds : running[e] > 0 => e \in inFlight
    /\ inFlight \cap processedSet = {}
    /\ processedSet = SeqRange(processedQueue)

\* C33 witness: a handler has returned and its callback has not yet run
\* Finish: the eventId is still in flight, while another eventId is already
\* in the processed cache.
C33_Witness ==
    \E k \in CallbackIds :
        /\ callbacks[k].pc = "finish"
        /\ callbacks[k].eventId \in inFlight
        /\ running[callbacks[k].eventId] = 0
        /\ processedSet # {}

\* The messages the claim names, told from the payload as sent.
ClaimedNotJson(payload) == payload.syntax # "object"

ClaimedFieldInvalid(payload) ==
    \/ payload.schemaVersion \notin {"1.0.0", "1.9.3"}
    \/ payload.type # "print_job_dispatch"
    \/ Absent \in {payload.eventId, payload.traceId, payload.jobId}
    \/ payload.printerId = " "
    \/ payload.objectUrl # "https://storage.example.com/rendered.pdf"
    \/ payload.issuedAt \in {"2026-02-21", Absent}

ClaimedMisrouted(payload) == payload.printerId # "printer-01"

\* C34: a message that is not valid JSON, fails field validation or carries
\* another printer's printerId never reaches the handler and leaves the
\* in-flight set and the processed cache unchanged; the callback returns
\* without error and the loop keeps its session.
C34_InvalidMessageDroppedQuietly ==
    [][(ClaimedNotJson(msgPayload) \/ ClaimedFieldInvalid(msgPayload)
            \/ ClaimedMisrouted(msgPayload)) =>
          /\ msgResult'.outcome = "dropped"
          /\ msgResult'.handled = {}
          /\ msgResult'.returned = "nil"
          /\ msgResult'.warn \in {"mqtt_command_decode_failed", "mqtt_command_schema_invalid",
                                   "mqtt_command_printer_mismatch"}
          /\ UNCHANGED <<inFlight, processedQueue, processedSet, handlerCalls, running>>
          /\ UNCHANGED <<loopPc, openSessions, brokerSubscribed>>]_vars

\* C34 witness: a well-formed command for printer-02 was dropped by the loop
\* of printer-01, which is still waiting on its session.
C34_Witness ==
    /\ msgResult.outcome = "dropped"
    /\ msgResult.warn = "mqtt_command_printer_mismatch"
    /\ msgPayload.printerId = "printer-02"
    /\ msgResult.returned = "nil"
    /\ loopPc.at = "waiting"
    /\ openSessions = 1
    /\ processedSet = {}

\* The eventId of the latest Add call.
LastAdded(adds) == adds[Len(adds)]

C36_EarlierSessionEventIdDropped ==
    [][\A e \in sessionLog.earlier : ~(e \notin inFlight /\ e \in inFlight')]_vars

\* C36 (amended): the steps of the loop (connect, subscribe, disconnect,
\* sleep, return) leave the processed cache and the in-flight set as they
\* are; no handler is invoked for an eventId that is in the cache, whichever
\* session put it there; and an eventId processed in an earlier session is
\* handed to the handler again only after the cache evicted it.
C36_CacheSurvivesReconnects ==
    /\ [][loopPc' # loopPc =>
            /\ processedQueue' = processedQueue
            /\ processedSet' = processedSet
            /\ inFlight' = inFlight]_vars
    /\ [][\A e \in CommandIds :
            (e \notin inFlight /\ e \in inFlight') =>
                /\ e \notin processedSet
                /\ e \in sessionLog.earlier => e \in recent.reopened]_vars
    /\ [](\A e \in sessionLog.earlier \cup sessionLog.now :
            e \in processedSet \/ e \in recent.reopened)

\* C36 witness: an eventId processed once before the latest subscribe is in
\* the cache of the re-subscribed loop, and a delivery of it in the new
\* session was dropped.
C36_Witness ==
    \E e \in CommandIds :
        /\ e \in sessionLog.dropped
        /\ e \in sessionLog.earlier
        /\ e \in processedSet
        /\ handlerCalls[e] = 1
        /\ brokerSubscribed
        /\ loopPc.at = "waiting"

\* C37: after a successful subscribe the backoff is reset, so the first sleep
\* after a later session loss lasts the initial delay, however many failures
\* came before the successful subscribe.
C37_FirstSleepAfterSessionLossIsInitial ==
    /\ [](loopPc.at = "waiting" => NextDelay(backoff) = backoff.policy.InitialDelay)
    /\ [][(/\ Len(harness'.sleepDurations) = Len(harness.sleepDurations) + 1
            /\ harness'.cause = "session_loss") =>
               /\ loopPc.at = "waiting"
               /\ harness'.sleepRun = 1
               /\ harness'.sleepDurations[Len(harness'.sleepDurations)]
                     = backoff.policy.InitialDelay]_vars

\* C37 witness: under the policy of the test two failures were slept off with
\* 100 and 200, the loop then subscribed, and the sleep after the loss of that
\* session lasted 100 again.
C37_Witness ==
    /\ backoff.policy = TestBackoffPolicy
    /\ harness.sleepDurations = <<100, 200, 100>>
    /\ harness.cause = "session_loss"
    /\ harness.sleepRun = 1
    /\ harness.failureRun = 0
    /\ loopPc.at = "sleep"

\* C38: the loop holds at most one open session at any time; after a
\* subscribe failure or a session loss the session is closed before the next
\* Connect is attempted; and each session is subscribed at most once.
C38_OneSessionAtATime ==
    /\ [](/\ openSessions <= 1
          /\ loopPc.at \in {"connect", "sleep"} => openSessions = 0
          /\ brokerSubscribed => (loopPc.at = "waiting" /\ openSessions = 1))
    /\ [][(loopPc.at = "subscribe" /\ loopPc'.at = "waiting") => ~brokerSubscribed]_vars

\* The download the print command may follow: the request was answered with
\* status 200, the body read is within the byte ceiling and starts with
\* %PDF-, and it was written to the spool file.
DownloadedToSpool ==
    /\ execSeen.http = "ok"
    /\ execSeen.status = 200
    /\ execSeen.read = "ok"
    /\ Len(execSeen.payload) <= maxDownloadB
    /\ HasPrefix(execSeen.payload, pdfSignature)
    /\ execSeen.spool = "created"

\* C39: one call of Execute performs at most one HTTP fetch and at most one
\* print-command invocation, in that order; the print command is invoked only
\* after the fetch returned status 200 with a body within the size limit that
\* starts with %PDF- and the body was written to the spool file, and never
\* when validation or download fails.
C39_OneFetchThenOnePrint ==
    /\ [](/\ execPc = "request" => (execSeen.http = "none" /\ execSeen.lp = "none")
          /\ execPc = "run" => (execSeen.lp = "none" /\ DownloadedToSpool
                                  /\ SpoolPath \in spoolFiles)
          /\ execSeen.lp # "none" => (execPc = "returned" /\ DownloadedToSpool)
          /\ (execPc = "returned" /\ execResult.ErrorCode
                  \in {"invalid_command", "spool_prepare_failed", "download_failed",
                       "invalid_pdf_payload", "spool_write_failed"})
                => execSeen.lp = "none"
          /\ (execPc = "returned" /\ execResult.ErrorCode = "invalid_command")
                => execSeen.http = "none")
    /\ [][/\ execPc' = "request" => execPc \in {"mkdir", "request"}
          /\ execPc' = "run" => execPc \in {"close", "run"}
          /\ execSeen'.http # execSeen.http => (execPc = "request" /\ execSeen.http = "none")
          /\ execSeen'.lp # execSeen.lp => (execPc = "run" /\ execSeen.lp = "none")]_vars

\* C39 witness: a PDF of exactly the byte ceiling was fetched with status 200,
\* spooled and handed to the print command, which printed it.
C39_Witness ==
    /\ execPc = "returned"
    /\ execResult.Outcome = "printed"
    /\ execSeen.http = "ok"
    /\ execSeen.status = 200
    /\ execSeen.payload = pdfSignature \o Filler(maxDownloadB - 5)
    /\ execSeen.spool = "created"
    /\ execSeen.lp = "ok"
    /\ spoolFiles = {}

====
